---- MODULE Spec2Model ----
(***************************************************************************)
(* Model of the pi-skills command-line scripts.                            *)
(*                                                                         *)
(* Part 1 - the cost ledger of the two image skills                        *)
(*          (nano-banana/generate.js and openai-image/generate.js).        *)
(* Part 2 - attachments of the Linear create-issue and update-issue        *)
(*          scripts (linear-api.js, create-issue.js, update-issue.js).     *)
(* Part 3 - browser-tools/browser-start.js.                                *)
(*                                                                         *)
(* Money is counted in exact units of 10^-7 USD, so that every published   *)
(* price and every per-token price is an integer.                          *)
(***************************************************************************)
EXTENDS Integers, Sequences, FiniteSets, TLC

VARIABLES
    skill,      \* the image skill whose ledger this behaviour follows
    costFile,   \* COST_FILE: [kind, data]
    clock,      \* number of runs started so far (the source of timestamps)
    run,        \* what the most recent run did: its arguments and its outcome
    gens,       \* history variable: records of the generations since the ledger was last absent, unparsable or reset
    rpc,        \* overlapping runs: position of each process
    rdata,      \* overlapping runs: costData each process holds in memory
    rrec,       \* overlapping runs: the generation each process is about to record
    rlog,       \* overlapping runs: order of the loads and saves
    iscript,    \* linear: "create-issue" or "update-issue"
    iatts,      \* linear: the --attachment values, in command-line order
    isharp,     \* linear: can the image library be imported
    ipc,        \* linear: position of the run
    ik,         \* linear: index of the attachment the current loop is at
    irs,        \* linear: width, quality, attempt and buffer of the resize loop
    iparts,     \* linear: markdownParts, one entry per embedded image
    iremaining, \* linear: remaining, the attachments not embedded
    ireqs,      \* linear: the GraphQL requests sent, in order
    iresults,   \* linear: attachmentResults
    iout,       \* linear: exit code, messages on stderr, issue printed
    iissue,     \* linear: has the issue mutation returned the issue
    barg,       \* browser-start: process.argv[2], "" when absent
    bpc,        \* browser-start: position of the run
    bi,         \* browser-start: i of the wait loop
    bfx,        \* browser-start: what the run has done outside itself
    bout,       \* browser-start: exit code and messages on stderr and stdout
    cli,        \* one script run: the script, its command line and the environment it meets
    ran         \* one script run: what the run did, [pc |-> "pending"] before it has run

ledgerVars == <<skill, costFile, clock, run, gens>>
raceVars == <<rpc, rdata, rrec, rlog>>
issueVars == <<iscript, iatts, isharp, ipc, ik, irs, iparts, iremaining, ireqs, iresults, iout, iissue>>
browserVars == <<barg, bpc, bi, bfx, bout>>
scriptVars == <<cli, ran>>
notLedger == <<issueVars, browserVars, scriptVars>>
notIssue == <<ledgerVars, raceVars, browserVars, scriptVars>>
notBrowser == <<ledgerVars, raceVars, issueVars, scriptVars>>
notScript == <<ledgerVars, raceVars, issueVars, browserVars>>
vars == <<skill, costFile, clock, run, gens, rpc, rdata, rrec, rlog,
          iscript, iatts, isharp, ipc, ik, irs, iparts, iremaining, ireqs, iresults, iout, iissue,
          barg, bpc, bi, bfx, bout, cli, ran>>

----------------------------------------------------------------------------
(* Bounds *)

MaxRuns == 2
MaxAttachments == 2
MaxWords == 4
MaxArgs == 3

(* Program constants *)

HistoryCap == 100
RecentShown == 10

Undefined == "undefined"

Skills == {"nano-banana", "openai-image"}

----------------------------------------------------------------------------
(* Sequence helpers *)

\* Array.prototype.slice(-n)
SliceLast(s, n) ==
    IF Len(s) <= n THEN s ELSE SubSeq(s, Len(s) - n + 1, Len(s))

RECURSIVE SumCost(_)
SumCost(s) == IF s = <<>> THEN 0 ELSE s[1].cost + SumCost(Tail(s))

RECURSIVE SumImages(_)
SumImages(s) == IF s = <<>> THEN 0 ELSE s[1].n + SumImages(Tail(s))

Contains(s, x) == \E i \in 1..Len(s) : s[i] = x

----------------------------------------------------------------------------
(* The ledger file *)

EmptyLedger == [totalCost |-> 0, imageCount |-> 0, history |-> <<>>]

AbsentFile == [kind |-> "absent", data |-> EmptyLedger]
CorruptFile == [kind |-> "corrupt", data |-> EmptyLedger]

\* mutant: the file is never read
LoadCostData_AlwaysEmpty(file) == EmptyLedger

\* loadCostData: the parsed file when it exists and parses, the empty ledger otherwise
LoadCostData(file) ==
    IF file.kind = "ledger" THEN file.data ELSE EmptyLedger

\* saveCostData: the file now holds the JSON text of data
SaveCostData(data) == [kind |-> "ledger", data |-> data]

\* mutant: slice(0, 100) keeps the oldest entries
TrimHistory_KeepOldest(h) == IF Len(h) > HistoryCap THEN SubSeq(h, 1, HistoryCap) ELSE h

\* "Keep only last 100 entries in history"
TrimHistory(h) == IF Len(h) > HistoryCap THEN SliceLast(h, HistoryCap) ELSE h

\* mutant: totalCost = generationCost instead of +=
AddGeneration_Overwrite(data, cost, n, rec) ==
    [totalCost  |-> cost,
     imageCount |-> data.imageCount + n,
     history    |-> TrimHistory(Append(data.history, rec))]

\* mutant: imageCount += 1 whatever the number of images written
AddGeneration_CountRuns(data, cost, n, rec) ==
    [totalCost  |-> data.totalCost + cost,
     imageCount |-> data.imageCount + 1,
     history    |-> TrimHistory(Append(data.history, rec))]

\* mutant: the record is pushed in front of the history
AddGeneration_Unshift(data, cost, n, rec) ==
    [totalCost  |-> data.totalCost + cost,
     imageCount |-> data.imageCount + n,
     history    |-> TrimHistory(<<rec>> \o data.history)]

\* the ledger update after a generation: add cost, count images, push record, trim
AddGeneration(data, cost, n, rec) ==
    [totalCost  |-> data.totalCost + cost,
     imageCount |-> data.imageCount + n,
     history    |-> TrimHistory(Append(data.history, rec))]

\* mutant: imageCount restarts at 1 instead of 0
ResetData_KeepCount == [totalCost |-> 0, imageCount |-> 1, history |-> <<>>]

\* resetCosts writes this
ResetData == [totalCost |-> 0, imageCount |-> 0, history |-> <<>>]

----------------------------------------------------------------------------
(* nano-banana/generate.js *)

PRICING_flash == 315000
PRICING_pro == [s \in {"1K", "2K", "4K"} |->
                  CASE s = "1K" -> 390000 [] s = "2K" -> 560000 [] s = "4K" -> 800000]

validAspectRatios == {"1:1", "16:9", "9:16", "4:3", "3:4", "3:2", "2:3", "4:5", "5:4", "21:9"}
nanoValidSizes == {"1K", "2K", "4K"}

getGenerationCost(model, imageSize) ==
    IF model = "flash" THEN PRICING_flash
    ELSE IF imageSize \in DOMAIN PRICING_pro THEN PRICING_pro[imageSize] ELSE PRICING_pro["1K"]

\* the command-line words used in the model that begin with "-"
DashWords == {"-o", "--output", "-i", "--input", "--aspect", "--model", "--size", "-h", "--help",
              "--costs", "--reset-costs", "--mask", "--quality", "--format", "--transparent", "-n",
              "--verbose"}

StartsWithDash(arg) == arg \in DashWords

\* args[++i]
NextArg(args, i) == IF i + 1 <= Len(args) THEN args[i + 1] ELSE Undefined

NanoDefaults ==
    [prompt |-> "", outputPath |-> "", inputPath |-> "", aspectRatio |-> "1:1",
     model |-> "flash", imageSize |-> "1K", cmd |-> "generate"]

\* the argument loop; cmd records the branch that left the loop through process.exit
RECURSIVE NanoParse(_, _, _)
NanoParse(args, i, st) ==
    IF i > Len(args) THEN st
    ELSE LET arg == args[i] IN
         CASE arg \in {"-o", "--output"} -> NanoParse(args, i + 2, [st EXCEPT !.outputPath = NextArg(args, i)])
           [] arg \in {"-i", "--input"}  -> NanoParse(args, i + 2, [st EXCEPT !.inputPath = NextArg(args, i)])
           [] arg = "--aspect"           -> NanoParse(args, i + 2, [st EXCEPT !.aspectRatio = NextArg(args, i)])
           [] arg = "--model"            -> NanoParse(args, i + 2, [st EXCEPT !.model = NextArg(args, i)])
           [] arg = "--size"             -> NanoParse(args, i + 2, [st EXCEPT !.imageSize = NextArg(args, i)])
           [] arg \in {"-h", "--help"}   -> [st EXCEPT !.cmd = "help"]
           [] arg = "--costs"            -> [st EXCEPT !.cmd = "costs"]
           [] arg = "--reset-costs"      -> [st EXCEPT !.cmd = "reset"]
           [] OTHER -> IF ~StartsWithDash(arg)
                       THEN NanoParse(args, i + 1, [st EXCEPT !.prompt = arg])
                       ELSE NanoParse(args, i + 1, st)

\* what a run did; effect is what it does to the ledger file:
\* "none", "reset" (resetCosts) or "add" (the cost tracking after a generation)
Result(cmd, exit, err, out, api, images, ok, effect, cost, rec) ==
    [cmd |-> cmd, exit |-> exit, err |-> err, out |-> out, api |-> api,
     images |-> images, ok |-> ok, effect |-> effect, cost |-> cost, rec |-> rec]

NoRec == [timestamp |-> 0]

\* mutant: a failed generation is still added to the ledger
Fail_Charged(api, images) == Result("generate", 1, 1, 0, api, images, FALSE, "add", 1, NoRec)

\* console.error(...) ; process.exit(1), after api requests and images files written
Fail(api, images) == Result("generate", 1, 1, 0, api, images, FALSE, "none", 0, NoRec)

\* mutant: showCosts writes a ledger
ShowCosts_Writes == Result("costs", 0, 0, 1, 0, 0, TRUE, "reset", 0, NoRec)

\* showCosts + process.exit(0): loads the ledger and prints it
ShowCosts == Result("costs", 0, 0, 1, 0, 0, TRUE, "none", 0, NoRec)

\* resetCosts + process.exit(0): loads the ledger, saves the zero ledger, prints
ResetCosts == Result("reset", 0, 0, 1, 0, 0, TRUE, "reset", 0, NoRec)

\* printHelp + process.exit(0)
PrintHelp == Result("help", 0, 0, 1, 0, 0, TRUE, "none", 0, NoRec)

\* the ledger file after a run with result r
ApplyEffect(file, r) ==
    CASE r.effect = "reset" -> SaveCostData(ResetData)
      [] r.effect = "add"   -> SaveCostData(AddGeneration(LoadCostData(file), r.cost, r.images, r.rec))
      [] OTHER              -> file

\* the history record of a nano-banana generation (the prompt text is left out)
NanoRecord(st, now) ==
    [timestamp |-> now, model |-> st.model,
     size |-> IF st.model = "pro" THEN st.imageSize ELSE "1K",
     cost |-> getGenerationCost(st.model, st.imageSize)]

\* the script from its first statement to its exit
NanoMain(args, env, now) ==
    LET st == NanoParse(args, 1, NanoDefaults) IN
    CASE st.cmd = "help"  -> PrintHelp
      [] st.cmd = "costs" -> ShowCosts
      [] st.cmd = "reset" -> ResetCosts
      [] OTHER ->
         IF st.prompt = "" THEN Fail(0, 0)
         ELSE IF ~env.apiKey THEN Fail(0, 0)
         ELSE IF st.aspectRatio \notin validAspectRatios THEN Fail(0, 0)
         ELSE IF st.model \notin {"flash", "pro"} THEN Fail(0, 0)
         ELSE IF st.imageSize \notin nanoValidSizes THEN Fail(0, 0)
         ELSE IF st.inputPath # "" /\ ~env.inputExists THEN Fail(0, 0)
         ELSE IF env.response # "image" THEN Fail(1, 0)
         ELSE IF ~env.writeOk THEN Fail(1, 0)
         ELSE LET rec == NanoRecord(st, now)
              IN Result("generate", 0, 1, 1, 1, 1, TRUE, "add", rec.cost, rec)

----------------------------------------------------------------------------
(* openai-image/generate.js *)

\* per token, input and output by quality
TOKEN_PRICING ==
    [m \in {"gpt-image-1", "gpt-image-1.5", "gpt-image-1-mini"} |->
       CASE m = "gpt-image-1" ->
              [input |-> 50, output |-> [low |-> 200, medium |-> 400, high |-> 800, auto |-> 400]]
         [] m = "gpt-image-1.5" ->
              [input |-> 80, output |-> [low |-> 300, medium |-> 600, high |-> 1200, auto |-> 600]]
         [] m = "gpt-image-1-mini" ->
              [input |-> 25, output |-> [low |-> 100, medium |-> 200, high |-> 400, auto |-> 200]]]

\* per image, by model, quality and size; 0 stands for a missing entry
DALLE_PRICING(m, q, size) ==
    CASE m = "dall-e-3" /\ q = "standard" ->
           (CASE size = "1024x1024" -> 400000 [] size \in {"1024x1792", "1792x1024"} -> 800000 [] OTHER -> 0)
      [] m = "dall-e-3" /\ q = "hd" ->
           (CASE size = "1024x1024" -> 800000 [] size \in {"1024x1792", "1792x1024"} -> 1200000 [] OTHER -> 0)
      [] m = "dall-e-2" /\ q = "standard" ->
           (CASE size = "1024x1024" -> 200000 [] size = "512x512" -> 180000 [] size = "256x256" -> 160000 [] OTHER -> 0)
      [] OTHER -> 0

\* does DALLE_PRICING[model]?.[qualityKey] exist
HasDallePricing(m, q) == (m = "dall-e-3" /\ q \in {"standard", "hd"}) \/ (m = "dall-e-2" /\ q = "standard")

NoUsage == [input_tokens |-> 0, output_tokens |-> 0, present |-> FALSE]

StartsWithDallE(m) == m \in {"dall-e-3", "dall-e-2"}

\* a || b on strings, "" standing for a missing field
OrElse(a, b) == IF a # "" THEN a ELSE b

calculateCostFromUsage(model, quality, usage) ==
    LET pricing    == TOKEN_PRICING[model]
        qualityKey == OrElse(quality, "auto")
        outPrice   == IF qualityKey \in DOMAIN pricing.output
                      THEN pricing.output[qualityKey] ELSE pricing.output.auto
    IN usage.input_tokens * pricing.input + usage.output_tokens * outPrice

getDalleCost(model, quality, size, numImages) ==
    LET qualityKey == IF quality = "hd" THEN "hd" ELSE "standard" IN
    IF HasDallePricing(model, qualityKey)
    THEN LET bySize  == DALLE_PRICING(model, qualityKey, size)
             perImage == IF bySize # 0 THEN bySize ELSE DALLE_PRICING(model, qualityKey, "1024x1024")
         IN perImage * numImages
    ELSE 0

openaiValidSizes == {"1024x1024", "1536x1024", "1024x1536", "auto"}
validModels == {"gpt-image-1.5", "gpt-image-1", "gpt-image-1-mini", "dall-e-3", "dall-e-2"}
validQualities == {"low", "medium", "high", "auto"}
validFormats == {"png", "jpeg", "webp"}

NaN == -1

\* parseInt(word, 10) on the words of the model
ParseInt(w) == CASE w = "1" -> 1 [] w = "2" -> 2 [] w = "3" -> 3 [] OTHER -> NaN

OpenAIDefaults ==
    [prompt |-> "", outputPath |-> "", inputPath |-> "", maskPath |-> "", size |-> "auto",
     model |-> "gpt-image-1", quality |-> "auto", format |-> "png", transparent |-> FALSE,
     numImages |-> 1, cmd |-> "generate"]

RECURSIVE OpenAIParse(_, _, _)
OpenAIParse(args, i, st) ==
    IF i > Len(args) THEN st
    ELSE LET arg == args[i] IN
         CASE arg \in {"-o", "--output"} -> OpenAIParse(args, i + 2, [st EXCEPT !.outputPath = NextArg(args, i)])
           [] arg \in {"-i", "--input"}  -> OpenAIParse(args, i + 2, [st EXCEPT !.inputPath = NextArg(args, i)])
           [] arg = "--mask"             -> OpenAIParse(args, i + 2, [st EXCEPT !.maskPath = NextArg(args, i)])
           [] arg = "--size"             -> OpenAIParse(args, i + 2, [st EXCEPT !.size = NextArg(args, i)])
           [] arg = "--model"            -> OpenAIParse(args, i + 2, [st EXCEPT !.model = NextArg(args, i)])
           [] arg = "--quality"          -> OpenAIParse(args, i + 2, [st EXCEPT !.quality = NextArg(args, i)])
           [] arg = "--format"           -> OpenAIParse(args, i + 2, [st EXCEPT !.format = NextArg(args, i)])
           [] arg = "--transparent"      -> OpenAIParse(args, i + 1, [st EXCEPT !.transparent = TRUE])
           [] arg = "-n"                 -> OpenAIParse(args, i + 2, [st EXCEPT !.numImages = ParseInt(NextArg(args, i))])
           [] arg \in {"-h", "--help"}   -> [st EXCEPT !.cmd = "help"]
           [] arg = "--costs"            -> [st EXCEPT !.cmd = "costs"]
           [] arg = "--reset-costs"      -> [st EXCEPT !.cmd = "reset"]
           [] OTHER -> IF ~StartsWithDash(arg)
                       THEN OpenAIParse(args, i + 1, [st EXCEPT !.prompt = arg])
                       ELSE OpenAIParse(args, i + 1, st)

\* what the API returned for one image: base64 data, a URL (with the outcome the
\* download of that URL will have), or neither
ItemKinds == {"b64", "url_ok", "url_http_error", "url_network_error", "none"}

\* the image-writing loop: acc counts outputPaths, the files whose bytes are not
\* an image, and whether an exception left the loop
RECURSIVE WriteImages(_, _, _, _)
WriteImages(items, i, writeOk, acc) ==
    IF i > Len(items) THEN acc
    ELSE LET it == items[i] IN
         CASE it = "none" -> WriteImages(items, i + 1, writeOk, acc)
           [] it = "url_network_error" -> [acc EXCEPT !.threw = TRUE]
           [] ~writeOk -> [acc EXCEPT !.threw = TRUE]
           [] it = "url_http_error" ->
                WriteImages(items, i + 1, writeOk, [acc EXCEPT !.paths = @ + 1, !.bad = @ + 1])
           [] OTHER -> WriteImages(items, i + 1, writeOk, [acc EXCEPT !.paths = @ + 1])

OpenAIRecord(st, env, now, n, cost) ==
    [timestamp |-> now, model |-> st.model,
     quality |-> OrElse(env.quality, st.quality),
     size |-> OrElse(env.size, st.size),
     numImages |-> n,
     tokens |-> IF env.usage.present
                THEN [input |-> env.usage.input_tokens, output |-> env.usage.output_tokens, present |-> TRUE]
                ELSE [input |-> 0, output |-> 0, present |-> FALSE],
     cost |-> cost]

\* the script from its first statement to its exit
OpenAIMain(args, env, now) ==
    LET st == OpenAIParse(args, 1, OpenAIDefaults)
        isEdit == st.inputPath # ""
    IN
    CASE st.cmd = "help"  -> PrintHelp
      [] st.cmd = "costs" -> ShowCosts
      [] st.cmd = "reset" -> ResetCosts
      [] OTHER ->
         IF st.prompt = "" THEN Fail(0, 0)
         ELSE IF ~env.apiKey THEN Fail(0, 0)
         ELSE IF st.size \notin openaiValidSizes THEN Fail(0, 0)
         ELSE IF st.model \notin validModels THEN Fail(0, 0)
         ELSE IF st.quality \notin validQualities THEN Fail(0, 0)
         ELSE IF st.format \notin validFormats THEN Fail(0, 0)
         ELSE IF st.transparent /\ st.format = "jpeg" THEN Fail(0, 0)
         ELSE IF isEdit /\ st.model = "dall-e-3" THEN Fail(0, 0)
         ELSE IF isEdit /\ ~env.inputExists THEN Fail(0, 0)
         ELSE IF isEdit /\ st.maskPath # "" /\ ~env.maskExists THEN Fail(0, 0)
         ELSE IF env.response \in {"network_error", "http_error"} THEN Fail(1, 0)
         ELSE IF env.response = "no_data" \/ env.items = <<>> THEN Fail(1, 0)
         ELSE LET w == WriteImages(env.items, 1, env.writeOk, [paths |-> 0, bad |-> 0, threw |-> FALSE]) IN
              IF w.threw THEN Fail(1, w.paths)
              ELSE LET cost == IF env.usage.present /\ ~StartsWithDallE(st.model)
                               THEN calculateCostFromUsage(st.model, OrElse(env.quality, st.quality), env.usage)
                               ELSE getDalleCost(st.model, st.quality, OrElse(env.size, st.size), w.paths)
                       rec == OpenAIRecord(st, env, now, w.paths, cost)
                   IN Result("generate", 0, 1, w.paths, 1, w.paths,
                             w.bad = 0 /\ w.paths = Len(env.items), "add", cost, rec)

----------------------------------------------------------------------------
(* Inputs of the runs *)

NanoArgLists ==
    { <<>>,
      <<"a cat">>,
      <<"a cat", "--size", "2K">>,
      <<"a cat", "--model", "pro">>,
      <<"a cat", "--model", "pro", "--size", "4K">>,
      <<"a cat", "--model", "turbo">>,
      <<"a cat", "--model">>,
      <<"a cat", "--aspect", "7:1">>,
      <<"a cat", "-i", "in.png">>,
      <<"--verbose", "a cat">>,
      <<"--costs">>,
      <<"--reset-costs">>,
      <<"a cat", "--model", "pro", "--reset-costs">>,
      <<"--costs", "--reset-costs">>,
      <<"-h", "--reset-costs">>,
      <<"-o", "--reset-costs", "a cat">> }

NanoOkEnv == [apiKey |-> TRUE, inputExists |-> TRUE, response |-> "image", writeOk |-> TRUE]

NanoResponses == {"network_error", "http_error", "no_candidates", "no_image", "image"}

NanoEnvs ==
    {NanoOkEnv, [NanoOkEnv EXCEPT !.apiKey = FALSE], [NanoOkEnv EXCEPT !.inputExists = FALSE],
     [NanoOkEnv EXCEPT !.writeOk = FALSE]}
    \cup {[NanoOkEnv EXCEPT !.response = r] : r \in NanoResponses}

OpenAIArgLists ==
    { <<>>,
      <<"a cat">>,
      <<"a cat", "-n", "2">>,
      <<"a cat", "-n">>,
      <<"a cat", "--model", "dall-e-3">>,
      <<"a cat", "--model", "dall-e-2", "-n", "2">>,
      <<"a cat", "--model", "gpt-image-1-mini", "--quality", "high">>,
      <<"a cat", "--quality", "hd">>,
      <<"a cat", "--format", "jpeg", "--transparent">>,
      <<"a cat", "-i", "in.png">>,
      <<"a cat", "-i", "in.png", "--mask", "mask.png">>,
      <<"a cat", "-i", "in.png", "--model", "dall-e-3">>,
      <<"--costs">>,
      <<"--reset-costs">>,
      <<"a cat", "-n", "2", "--reset-costs">>,
      <<"--costs", "--reset-costs">>,
      <<"-h", "--reset-costs">>,
      <<"-o", "--reset-costs", "a cat">> }

SomeUsage == [input_tokens |-> 10, output_tokens |-> 100, present |-> TRUE]

OpenAIOkEnv ==
    [apiKey |-> TRUE, inputExists |-> TRUE, maskExists |-> TRUE, response |-> "data",
     items |-> <<"b64">>, usage |-> SomeUsage, size |-> "", quality |-> "", writeOk |-> TRUE]

OpenAIItemLists ==
    {<<>>, <<"b64">>, <<"b64", "b64">>, <<"url_ok">>, <<"url_http_error">>,
     <<"b64", "url_network_error">>, <<"none">>, <<"b64", "none">>}

OpenAIEnvs ==
    {OpenAIOkEnv, [OpenAIOkEnv EXCEPT !.apiKey = FALSE], [OpenAIOkEnv EXCEPT !.inputExists = FALSE],
     [OpenAIOkEnv EXCEPT !.maskExists = FALSE], [OpenAIOkEnv EXCEPT !.writeOk = FALSE],
     [OpenAIOkEnv EXCEPT !.usage = NoUsage],
     [OpenAIOkEnv EXCEPT !.usage = NoUsage, !.items = <<"b64", "b64">>],
     [OpenAIOkEnv EXCEPT !.usage = NoUsage, !.size = "1024x1792"],
     [OpenAIOkEnv EXCEPT !.quality = "low"]}
    \cup {[OpenAIOkEnv EXCEPT !.response = r] : r \in {"network_error", "http_error", "no_data"}}
    \cup {[OpenAIOkEnv EXCEPT !.items = l] : l \in OpenAIItemLists}

\* the (arguments, environment) pairs the runs are drawn from: every argument list
\* in a working environment, and a few argument lists in every environment
NanoScenarios ==
    {[args |-> a, env |-> NanoOkEnv] : a \in NanoArgLists}
    \cup {[args |-> a, env |-> e] :
            a \in {<<"a cat", "-i", "in.png">>, <<"--reset-costs">>}, e \in NanoEnvs}

OpenAIScenarios ==
    {[args |-> a, env |-> OpenAIOkEnv] : a \in OpenAIArgLists}
    \cup {[args |-> a, env |-> e] :
            a \in {<<"a cat", "-i", "in.png", "--mask", "mask.png">>,
                   <<"a cat", "--model", "dall-e-2", "-n", "2">>,
                   <<"--reset-costs">>},
            e \in OpenAIEnvs}

Scenarios(sk) == IF sk = "nano-banana" THEN NanoScenarios ELSE OpenAIScenarios
Main(sk, args, env, now) ==
    IF sk = "nano-banana" THEN NanoMain(args, env, now) ELSE OpenAIMain(args, env, now)

----------------------------------------------------------------------------
(* The ledgers a first run can find *)

\* the record an earlier default generation left, k generations before the first run
OldRecord(sk, t) ==
    IF sk = "nano-banana"
    THEN NanoRecord(NanoDefaults, t)
    ELSE OpenAIRecord(OpenAIDefaults, OpenAIOkEnv, t, 1,
                      calculateCostFromUsage("gpt-image-1", "auto", SomeUsage))

\* the ledger k default generations leave when run one after another from an absent file
OldHistory(sk, k) == [i \in 1..k |-> OldRecord(sk, i - k)]

OldLedger(sk, k) ==
    SaveCostData([totalCost |-> SumCost(OldHistory(sk, k)), imageCount |-> k,
                  history |-> OldHistory(sk, k)])

OldLens == {HistoryCap - 1, HistoryCap}

InitFiles(sk) == {AbsentFile, CorruptFile} \cup {OldLedger(sk, k) : k \in OldLens}

\* the generations behind a file
GensOf(file) ==
    [i \in 1..Len(file.data.history) |->
        [rec |-> file.data.history[i], cost |-> file.data.history[i].cost, n |-> 1]]

\* what is remembered of the most recent run
\* resetArg: --reset-costs is among the arguments; resetLead: it is, and only
\* words without a leading "-" come before it; before: the kind of file the run found
ResetLeads(args) ==
    \E i \in 1..Len(args) :
        args[i] = "--reset-costs" /\ \A j \in 1..(i - 1) : ~StartsWithDash(args[j])

RunInfo(args, r, file) ==
    [resetArg |-> Contains(args, "--reset-costs"), resetLead |-> ResetLeads(args),
     before |-> file.kind, cmd |-> r.cmd, exit |-> r.exit, err |-> r.err,
     api |-> r.api, images |-> r.images, ok |-> r.ok, cost |-> r.cost]

IdleRun == [resetArg |-> FALSE, resetLead |-> FALSE, before |-> "absent", cmd |-> "none",
            exit |-> 0, err |-> 0, api |-> 0, images |-> 0, ok |-> TRUE, cost |-> 0]

Procs == {1, 2}

RaceIdle ==
    /\ rpc = [p \in Procs |-> "idle"]
    /\ rdata = [p \in Procs |-> EmptyLedger]
    /\ rrec = [p \in Procs |-> [cost |-> 0, n |-> 0, rec |-> NoRec]]
    /\ rlog = <<>>

\* the linear scripts are not running
IssueIdle ==
    /\ iscript = "create-issue"
    /\ iatts = <<>>
    /\ isharp = TRUE
    /\ ipc = "done"
    /\ ik = 1
    /\ irs = [width |-> 0, quality |-> 0, attempt |-> 0, buf |-> 0]
    /\ iparts = <<>>
    /\ iremaining = <<>>
    /\ ireqs = <<>>
    /\ iresults = <<>>
    /\ iout = [exit |-> 0, err |-> 0, printed |-> FALSE, told |-> {}]
    /\ iissue = FALSE

\* browser-start is not running
BrowserIdle ==
    /\ barg = ""
    /\ bpc = "done"
    /\ bi = 0
    /\ bfx = [spawned |-> 0, locksRemoved |-> FALSE, synced |-> FALSE, connects |-> 0, connected |-> FALSE]
    /\ bout = [exit |-> 0, err |-> 0, out |-> 0]

\* no other script is running
ScriptIdle ==
    /\ cli = [script |-> "none"]
    /\ ran = [pc |-> "idle"]

Init ==
    /\ skill \in Skills
    /\ costFile \in InitFiles(skill)
    /\ clock = 0
    /\ run = IdleRun
    /\ gens = GensOf(costFile)
    /\ RaceIdle
    /\ IssueIdle
    /\ BrowserIdle
    /\ ScriptIdle

\* the generations since the ledger was last absent, unparsable or reset
NextGens(file, g, r) ==
    CASE r.cmd = "reset" -> <<>>
      [] r.cmd = "generate" /\ r.exit = 0 ->
           Append(IF file.kind = "ledger" THEN g ELSE <<>>, [rec |-> r.rec, cost |-> r.cost, n |-> r.images])
      [] OTHER -> IF file.kind = "ledger" THEN g ELSE <<>>

\* one run of generate.js, from start to exit, with no other run overlapping it
Run(sk) ==
    /\ skill = sk
    /\ clock < MaxRuns
    /\ \E sc \in Scenarios(sk) :
         LET r == Main(sk, sc.args, sc.env, clock + 1) IN
         /\ costFile' = ApplyEffect(costFile, r)
         /\ run' = RunInfo(sc.args, r, costFile)
         /\ gens' = NextGens(costFile, gens, r)
    /\ clock' = clock + 1
    /\ UNCHANGED <<skill, raceVars, notLedger>>

NanoBananaRun == Run("nano-banana")
OpenAIImageRun == Run("openai-image")

Next == NanoBananaRun \/ OpenAIImageRun

Spec == Init /\ [][Next]_vars

----------------------------------------------------------------------------
(* Overlapping generation runs: two processes of the same skill, each between  *)
(* its image write and its exit.  loadCostData and saveCostData are separate   *)
(* system calls of separate processes, so another process can run between.     *)

RaceInit ==
    /\ skill \in Skills
    /\ costFile \in InitFiles(skill)
    /\ clock = 0
    /\ run = IdleRun
    /\ gens = GensOf(costFile)
    /\ RaceIdle
    /\ IssueIdle
    /\ BrowserIdle
    /\ ScriptIdle

\* the run of p up to "Calculate and track cost": the image is on disk
RaceGenerate(p) ==
    /\ rpc[p] = "idle"
    /\ \E sc \in Scenarios(skill) :
         LET r == Main(skill, sc.args, sc.env, clock + 1) IN
         /\ r.effect = "add"
         /\ rrec' = [rrec EXCEPT ![p] = [cost |-> r.cost, n |-> r.images, rec |-> r.rec]]
    /\ rpc' = [rpc EXCEPT ![p] = "generated"]
    /\ clock' = clock + 1
    /\ UNCHANGED <<skill, costFile, run, gens, rdata, rlog, notLedger>>

\* const costData = loadCostData()
RaceLoad(p) ==
    /\ rpc[p] = "generated"
    /\ rdata' = [rdata EXCEPT ![p] = LoadCostData(costFile)]
    /\ rpc' = [rpc EXCEPT ![p] = "loaded"]
    /\ rlog' = Append(rlog, <<"load", p>>)
    /\ UNCHANGED <<skill, costFile, clock, run, gens, rrec, notLedger>>

\* the in-memory update of costData and saveCostData(costData)
RaceSave(p) ==
    /\ rpc[p] = "loaded"
    /\ costFile' = SaveCostData(AddGeneration(rdata[p], rrec[p].cost, rrec[p].n, rrec[p].rec))
    /\ rpc' = [rpc EXCEPT ![p] = "done"]
    /\ rlog' = Append(rlog, <<"save", p>>)
    /\ gens' = Append(IF costFile.kind = "ledger" THEN gens ELSE <<>>, rrec[p])
    /\ UNCHANGED <<skill, clock, run, rdata, rrec, notLedger>>

RaceNext == \E p \in Procs : RaceGenerate(p) \/ RaceLoad(p) \/ RaceSave(p)

SpecRace == RaceInit /\ [][RaceNext]_vars

----------------------------------------------------------------------------
(* Properties of the cost ledger *)

\* the totals and history a file stands for; a missing or unparsable file stands for none
Held(file) ==
    IF file.kind = "ledger" THEN file.data
    ELSE [totalCost |-> 0, imageCount |-> 0, history |-> <<>>]

Ledger == Held(costFile)

GenerationDone == run.cmd = "generate" /\ run.exit = 0

RECURSIVE RecsOf(_)
RecsOf(g) == IF g = <<>> THEN <<>> ELSE <<g[1].rec>> \o RecsOf(Tail(g))

\* C1: after N successful generation runs, one after another, from an absent or
\* freshly reset ledger, totalCost is the sum of their costs
C1_TotalCostIsSum == Ledger.totalCost = SumCost(gens)

C1_Witness ==
    /\ GenerationDone
    /\ costFile.kind = "ledger"
    /\ Len(gens) = 2
    /\ gens[1].cost # gens[2].cost
    /\ gens[1].cost > 0

\* C2 as stated: imageCount is the number of successful generation runs, for
\* every -n and every number of images the API returns
C2_ImageCountIsRuns == Ledger.imageCount = Len(gens)

\* C2 amended: imageCount is the number of image files the successful runs wrote;
\* in nano-banana that is the number of runs
C2_ImageCountIsImages ==
    /\ Ledger.imageCount = SumImages(gens)
    /\ skill = "nano-banana" => Ledger.imageCount = Len(gens)

C2_Witness ==
    /\ GenerationDone
    /\ skill = "openai-image"
    /\ Len(gens) = 2
    /\ Ledger.imageCount = 3

ZeroFile == [kind |-> "ledger", data |-> [totalCost |-> 0, imageCount |-> 0, history |-> <<>>]]

\* C3 as stated: a run given --reset-costs leaves the zero ledger, exits 0 and
\* sends no API request, whatever else is on the command line
C3_ResetArgResets ==
    run.resetArg => (costFile = ZeroFile /\ run.exit = 0 /\ run.api = 0)

\* C3 amended: a run whose argument scan reaches --reset-costs (as it does when
\* only words without "-" come before it) leaves the zero ledger, exits 0 and
\* sends no API request, whatever file it found
C3_ReachedResetResets ==
    /\ run.resetLead => run.cmd = "reset"
    /\ run.cmd = "reset" => (costFile = ZeroFile /\ run.exit = 0 /\ run.api = 0 /\ gens = <<>>)

C3_Witness ==
    /\ run.cmd = "reset"
    /\ run.resetLead
    /\ run.before = "ledger"
    /\ clock = 1
    /\ costFile = ZeroFile

\* C4: history never has more than 100 entries; it is the 100 most recent
\* generation records in order, and the totals still count the dropped ones
C4_HistoryIsLast100 ==
    /\ Len(Ledger.history) <= HistoryCap
    /\ Ledger.history = SliceLast(RecsOf(gens), HistoryCap)
    /\ Ledger.totalCost = SumCost(gens)
    /\ Ledger.imageCount = SumImages(gens)

C4_Witness ==
    /\ GenerationDone
    /\ Len(gens) > HistoryCap
    /\ Len(Ledger.history) = HistoryCap
    /\ Ledger.history[HistoryCap].timestamp = clock
    /\ Ledger.imageCount > HistoryCap

\* C5: without --reset-costs the totals never decrease from one run to the next;
\* --costs runs and failed runs leave them unchanged
C5_TotalsNeverDecrease ==
    [][ ~run'.resetArg =>
          /\ Held(costFile').totalCost >= Ledger.totalCost
          /\ Held(costFile').imageCount >= Ledger.imageCount
          /\ (run'.cmd = "costs" \/ run'.exit # 0) => costFile' = costFile ]_ledgerVars

C5_Witness ==
    /\ GenerationDone
    /\ ~run.resetArg
    /\ run.before = "ledger"
    /\ run.cost > 0
    /\ clock >= 2

\* C6: an absent or unparsable file loads as the empty ledger; --costs leaves
\* the file as it is; the next successful generation writes a ledger holding
\* exactly that generation
C6_LazyCreation ==
    [][ costFile.kind # "ledger" =>
          /\ LoadCostData(costFile) = Ledger
          /\ run'.cmd = "costs" => costFile' = costFile
          /\ (run'.cmd = "generate" /\ run'.exit = 0) =>
                /\ costFile'.kind = "ledger"
                /\ costFile'.data.totalCost = run'.cost
                /\ costFile'.data.imageCount = run'.images
                /\ Len(costFile'.data.history) = 1
                /\ costFile'.data.history[1].timestamp = clock'
                /\ costFile'.data.history[1].cost = run'.cost ]_ledgerVars

C6_Witness ==
    /\ GenerationDone
    /\ run.before = "corrupt"
    /\ clock = 2
    /\ Len(Ledger.history) = 1

\* C7: two overlapping generation runs that both load before either saves: the
\* last save wins; the file holds the common starting ledger plus the last
\* saver's generation only, and the other run's cost, images and record are lost
BothLoadedFirst ==
    /\ Len(rlog) = 4
    /\ rlog[1][1] = "load" /\ rlog[2][1] = "load"

LastSaver == rlog[4][2]
FirstSaver == rlog[3][2]

C7_LastWriterWins ==
    BothLoadedFirst =>
        /\ rdata[1] = rdata[2]
        /\ costFile.kind = "ledger"
        /\ costFile.data.totalCost = rdata[LastSaver].totalCost + rrec[LastSaver].cost
        /\ costFile.data.imageCount = rdata[LastSaver].imageCount + rrec[LastSaver].n
        /\ costFile.data.history[Len(costFile.data.history)] = rrec[LastSaver].rec
        /\ ~Contains(costFile.data.history, rrec[FirstSaver].rec)
        /\ costFile.data.totalCost = SumCost(gens) - rrec[FirstSaver].cost
        /\ costFile.data.imageCount = SumImages(gens) - rrec[FirstSaver].n

C7_Witness ==
    /\ BothLoadedFirst
    /\ rdata[1].imageCount >= HistoryCap - 1
    /\ costFile.data.imageCount < SumImages(gens)
    /\ costFile.data.totalCost < SumCost(gens)

----------------------------------------------------------------------------
(* linear: create-issue.js and update-issue.js with --attachment                *)

\* resizeImageToFitSize(filePath, targetSizeKB = 90): targetSizeKB * 1024
TargetSizeKB == 90
TargetSizeBytes == TargetSizeKB * 1024
MaxAttempts == 8
StartWidth == 800
StartQuality == 80
MinQuality == 30

EmbeddableExts == {".png", ".jpg", ".jpeg", ".gif", ".webp", ".svg"}

mimeTypes(ext) ==
    CASE ext = ".png" -> "image/png"
      [] ext \in {".jpg", ".jpeg"} -> "image/jpeg"
      [] ext = ".gif" -> "image/gif"
      [] ext = ".webp" -> "image/webp"
      [] ext = ".svg" -> "image/svg+xml"
      [] OTHER -> "application/octet-stream"

\* the format the resize pipeline encodes to
EncodedFormat(ext) ==
    CASE ext = ".png" -> "image/png"
      [] ext \in {".jpg", ".jpeg"} -> "image/jpeg"
      [] ext = ".webp" -> "image/webp"
      [] OTHER -> "image/jpeg"

\* the attachments of the model: kind "url" is an http(s) URL that new URL() parses,
\* "badurl" one that it rejects, "local" an existing file, "missing" a path with no file
UrlPng  == [name |-> "https://h/a.png", kind |-> "url", ext |-> ".png", size |-> 0]
UrlPdf  == [name |-> "https://h/b.pdf", kind |-> "url", ext |-> ".pdf", size |-> 0]
BadUrl  == [name |-> "http://", kind |-> "badurl", ext |-> "", size |-> 0]
FitPng  == [name |-> "fit.png", kind |-> "local", ext |-> ".png", size |-> TargetSizeBytes]
BigJpg  == [name |-> "big.jpg", kind |-> "local", ext |-> ".jpg", size |-> TargetSizeBytes + 1]
BigGif  == [name |-> "big.gif", kind |-> "local", ext |-> ".gif", size |-> 4 * TargetSizeBytes]
LogTxt  == [name |-> "log.txt", kind |-> "local", ext |-> ".txt", size |-> 10]
Missing == [name |-> "gone.png", kind |-> "missing", ext |-> ".png", size |-> 0]

AttachmentPool == {UrlPng, UrlPdf, BadUrl, FitPng, BigJpg, BigGif, LogTxt, Missing}

\* the sizes an encode attempt can produce
EncodedSizes == {TargetSizeBytes - 1, TargetSizeBytes, TargetSizeBytes + 1, 2 * TargetSizeBytes}

RECURSIVE SeqsUpTo(_, _)
SeqsUpTo(S, n) ==
    IF n = 0 THEN {<<>>}
    ELSE SeqsUpTo(S, n - 1) \cup {Append(q, x) : q \in {t \in SeqsUpTo(S, n - 1) : Len(t) = n - 1}, x \in S}

\* attachment.startsWith('http://') || attachment.startsWith('https://')
IsHttp(a) == a.kind \in {"url", "badurl"}

\* mutant: a file of exactly 90 KB is not small enough
AlreadySmall_Strict(size) == size < TargetSizeKB * 1024

\* mutant: "small enough" compared against 900 KB
AlreadySmall_Loose(size) == size <= 10 * TargetSizeBytes

\* fileSizeKB <= 90, with fileSizeKB = stats.size / 1024
AlreadySmall(size) == size <= TargetSizeKB * 1024

\* mutant: a buffer of up to twice the target is returned as fitting
FitsTarget_Loose(size) == size <= 2 * TargetSizeBytes

\* buffer.length <= targetSizeBytes
FitsTarget(size) == size <= TargetSizeBytes

\* mutant: the width shrinks by 20% after every failed attempt
NextWidth_AlwaysFifth(width, attempt) == (width * 8) \div 10

\* Math.floor(width * 0.8), Math.floor(width * 0.9), Math.max(30, quality - 15)
NextWidth(width, attempt) ==
    IF attempt < 4 THEN (width * 8) \div 10 ELSE (width * 9) \div 10

NextQuality(quality, attempt) ==
    IF attempt < 4 THEN quality
    ELSE IF quality - 15 > MinQuality THEN quality - 15 ELSE MinQuality

NoResize == [width |-> 0, quality |-> 0, attempt |-> 0, buf |-> 0]

\* indices of the http(s) attachments among the indices in r, in order
UrlAttachments(r) == SelectSeq(r, LAMBDA i : IsHttp(iatts[i]))

\* a message on stdout or stderr that names attachment i
Mention(o, i) == [o EXCEPT !.told = @ \cup {i}]

\* mutant: the failure is not reported
Complain_Silent(o, n) == o

\* console.error once more
Complain(o, n) == [o EXCEPT !.err = @ + n]

\* console.error('Error:', ...); process.exit(1)
ExitFailure(o) == [o EXCEPT !.err = @ + 1, !.exit = 1]

IssueRunning == ipc \notin {"done", "failed"}

IssueInit ==
    /\ iscript \in {"create-issue", "update-issue"}
    /\ iatts \in SeqsUpTo(AttachmentPool, MaxAttachments)
    /\ isharp \in BOOLEAN
    /\ ipc = "start"
    /\ ik = 1
    /\ irs = NoResize
    /\ iparts = <<>>
    /\ iremaining = <<>>
    /\ ireqs = <<>>
    /\ iresults = <<>>
    /\ iout = [exit |-> -1, err |-> 0, printed |-> FALSE, told |-> {}]
    /\ iissue = FALSE
    /\ skill = "nano-banana"
    /\ costFile = AbsentFile
    /\ clock = 0
    /\ run = IdleRun
    /\ gens = <<>>
    /\ RaceIdle
    /\ BrowserIdle
    /\ ScriptIdle

\* main up to the call of processLocalImagesForDescription: argument checks and the
\* look-ups (teams, issue, workflow state, user) that come before it
Lookups ==
    /\ ipc = "start"
    /\ \E outcome \in {"ok", "rejected", "request_failed"} :
         \/ /\ outcome = "ok"
            /\ ireqs' = Append(ireqs, [op |-> "lookup", att |-> 0])
            /\ ipc' = "embed"
            /\ iout' = iout
         \/ /\ outcome = "rejected"
            /\ ireqs' = ireqs
            /\ ipc' = "failed"
            /\ iout' = ExitFailure(iout)
         \/ /\ outcome = "request_failed"
            /\ ireqs' = Append(ireqs, [op |-> "lookup", att |-> 0])
            /\ ipc' = "failed"
            /\ iout' = ExitFailure(iout)
    /\ UNCHANGED <<iscript, iatts, isharp, ik, irs, iparts, iremaining, iresults, iissue, notIssue>>

\* where the run goes when processLocalImagesForDescription has returned
AfterEmbedding == IF iscript = "create-issue" THEN "states" ELSE "mutate"

\* one iteration of the loop of processLocalImagesForDescription, up to its first await
EmbedNext ==
    /\ ipc = "embed"
    /\ IF ik > Len(iatts)
       THEN /\ ipc' = AfterEmbedding
            /\ UNCHANGED <<ik, irs, iparts, iremaining, iout>>
       ELSE LET a == iatts[ik] IN
            CASE IsHttp(a) ->
                   /\ iremaining' = Append(iremaining, ik)
                   /\ ik' = ik + 1
                   /\ UNCHANGED <<ipc, irs, iparts, iout>>
              [] a.kind = "missing" ->
                   /\ iout' = Mention(Complain(iout, 1), ik)
                   /\ ik' = ik + 1
                   /\ UNCHANGED <<ipc, irs, iparts, iremaining>>
              [] a.ext \notin EmbeddableExts ->
                   /\ iremaining' = Append(iremaining, ik)
                   /\ ik' = ik + 1
                   /\ UNCHANGED <<ipc, irs, iparts, iout>>
              [] AlreadySmall(a.size) ->
                   /\ iparts' = Append(iparts, [att |-> ik, mime |-> mimeTypes(a.ext), bytes |-> a.size,
                                                from |-> "original", attempts |-> 0])
                   /\ ik' = ik + 1
                   /\ iout' = Mention(iout, ik)
                   /\ UNCHANGED <<ipc, irs, iremaining>>
              [] ~isharp ->
                   /\ iout' = Mention(Complain(iout, 1), ik)
                   /\ iremaining' = Append(iremaining, ik)
                   /\ ik' = ik + 1
                   /\ UNCHANGED <<ipc, irs, iparts>>
              [] OTHER ->
                   /\ irs' = [width |-> StartWidth, quality |-> StartQuality, attempt |-> 0, buf |-> 0]
                   /\ ipc' = "resize"
                   /\ iout' = Mention(iout, ik)
                   /\ UNCHANGED <<ik, iparts, iremaining>>
    /\ UNCHANGED <<iscript, iatts, isharp, ireqs, iresults, iissue, notIssue>>

\* the image is embedded: back in processLocalImagesForDescription
Embedded(size, attempts) ==
    /\ iparts' = Append(iparts, [att |-> ik, mime |-> mimeTypes(iatts[ik].ext), bytes |-> size,
                                 from |-> "resized", attempts |-> attempts])
    /\ ik' = ik + 1
    /\ ipc' = "embed"
    /\ irs' = NoResize
    /\ UNCHANGED <<iremaining, iout>>

\* one iteration of the loop of resizeImageToFitSize: pipeline.toBuffer() returns a
\* buffer of some size, or throws
ResizeAttempt ==
    /\ ipc = "resize"
    /\ irs.attempt < MaxAttempts
    /\ \/ \E size \in EncodedSizes :
            IF FitsTarget(size)
            THEN Embedded(size, irs.attempt + 1)
            ELSE IF irs.attempt + 1 < MaxAttempts
            THEN /\ irs' = [width |-> NextWidth(irs.width, irs.attempt),
                            quality |-> NextQuality(irs.quality, irs.attempt),
                            attempt |-> irs.attempt + 1, buf |-> size]
                 /\ UNCHANGED <<ipc, ik, iparts, iremaining, iout>>
            ELSE Embedded(size, irs.attempt + 1)
       \/ /\ iout' = Complain(iout, 2)
          /\ iremaining' = Append(iremaining, ik)
          /\ ik' = ik + 1
          /\ ipc' = "embed"
          /\ irs' = NoResize
          /\ UNCHANGED iparts
    /\ UNCHANGED <<iscript, iatts, isharp, ireqs, iresults, iissue, notIssue>>

\* create-issue: getTeamStates
TeamStates ==
    /\ ipc = "states"
    /\ ireqs' = Append(ireqs, [op |-> "lookup", att |-> 0])
    /\ \/ ipc' = "mutate" /\ iout' = iout
       \/ ipc' = "failed" /\ iout' = ExitFailure(iout)
    /\ UNCHANGED <<iscript, iatts, isharp, ik, irs, iparts, iremaining, iresults, iissue, notIssue>>

\* mutant: the attachment loop runs whatever the issue mutation answered
IssueMutation_Regardless ==
    /\ ipc = "mutate"
    /\ ireqs' = Append(ireqs, [op |-> "issue", att |-> 0])
    /\ \E outcome \in {"success", "no_success", "error"} :
         ipc' = "attach" /\ ik' = 1 /\ iout' = iout /\ iissue' = (outcome = "success")
    /\ UNCHANGED <<iscript, iatts, isharp, irs, iparts, iremaining, iresults, notIssue>>

\* the issueCreate / issueUpdate mutation: success, success = false, or a rejected request
IssueMutation ==
    /\ ipc = "mutate"
    /\ ireqs' = Append(ireqs, [op |-> "issue", att |-> 0])
    /\ \E outcome \in {"success", "no_success", "error"} :
         IF outcome = "success"
         THEN ipc' = "attach" /\ ik' = 1 /\ iout' = iout /\ iissue' = TRUE
         ELSE ipc' = "failed" /\ ik' = ik /\ iout' = ExitFailure(iout) /\ iissue' = FALSE
    /\ UNCHANGED <<iscript, iatts, isharp, irs, iparts, iremaining, iresults, notIssue>>

\* mutant: an attachment failure is not caught and reaches the catch of main
AttachFailure_Abort(o) == [pc |-> "failed", out |-> ExitFailure(o)]

\* the catch inside the attachment loop: report and go on
AttachFailure(o) == [pc |-> "attach", out |-> Complain(o, 1)]

\* one iteration of the URL attachment loop after the issue mutation
AttachNext ==
    /\ ipc = "attach"
    /\ LET urls == UrlAttachments(iremaining) IN
       IF ik > Len(urls)
       THEN /\ ipc' = "print"
            /\ UNCHANGED <<ik, ireqs, iresults, iout>>
       ELSE LET i == urls[ik] IN
            /\ ik' = ik + 1
            /\ IF iatts[i].kind = "badurl"
               THEN /\ ireqs' = ireqs
                    /\ iresults' = Append(iresults, [att |-> i, ok |-> FALSE])
                    /\ ipc' = AttachFailure(iout).pc
                    /\ iout' = Mention(AttachFailure(iout).out, i)
               ELSE /\ ireqs' = Append(ireqs, [op |-> "attachment", att |-> i])
                    /\ \E outcome \in {"success", "no_success", "error"} :
                         IF outcome = "success"
                         THEN /\ iresults' = Append(iresults, [att |-> i, ok |-> TRUE])
                              /\ iout' = Mention(iout, i)
                              /\ UNCHANGED ipc
                         ELSE /\ iresults' = Append(iresults, [att |-> i, ok |-> FALSE])
                              /\ ipc' = AttachFailure(iout).pc
                              /\ iout' = Mention(AttachFailure(iout).out, i)
    /\ UNCHANGED <<iscript, iatts, isharp, irs, iparts, iremaining, iissue, notIssue>>

\* main prints the issue and the attachment results; the process ends with code 0
PrintIssue ==
    /\ ipc = "print"
    /\ ipc' = "done"
    /\ iout' = [iout EXCEPT !.exit = 0, !.printed = TRUE]
    /\ UNCHANGED <<iscript, iatts, isharp, ik, irs, iparts, iremaining, ireqs, iresults, iissue, notIssue>>

IssueNext ==
    \/ Lookups
    \/ EmbedNext
    \/ ResizeAttempt
    \/ TeamStates
    \/ IssueMutation
    \/ AttachNext
    \/ PrintIssue

SpecIssue == IssueInit /\ [][IssueNext]_vars

----------------------------------------------------------------------------
(* Properties of the attachments *)

Count(q, P(_)) == Len(SelectSeq(q, P))

AllIndices == [i \in 1..Len(iatts) |-> i]

IsPrefix(a, b) == Len(a) <= Len(b) /\ \A j \in 1..Len(a) : a[j] = b[j]

\* C9: once the issue mutation has succeeded, a failed URL attachment is reported,
\* the other URL attachments are still attempted, each once and in command-line
\* order, the issue mutation is neither undone nor repeated, and the run prints
\* the issue and exits 0
C9_AttachmentFailureIsolated ==
    iissue =>
        /\ iout.exit # 1
        /\ ipc \in {"attach", "print", "done"}
        /\ Count(ireqs, LAMBDA r : r.op = "issue") = 1
        /\ ireqs[Len(ireqs) - Count(ireqs, LAMBDA r : r.op = "attachment")].op = "issue"
        /\ IsPrefix([j \in 1..Len(iresults) |-> iresults[j].att],
                    SelectSeq(AllIndices, LAMBDA i : IsHttp(iatts[i])))
        /\ iout.err >= Count(iresults, LAMBDA r : ~r.ok)
        /\ ipc \in {"print", "done"} =>
              Len(iresults) = Count(AllIndices, LAMBDA i : IsHttp(iatts[i]))
        /\ ipc = "done" => (iout.exit = 0 /\ iout.printed)
        /\ ipc # "done" => ENABLED (AttachNext \/ PrintIssue)

C9_Witness ==
    /\ ipc = "done"
    /\ Len(iresults) = 2
    /\ ~iresults[1].ok
    /\ iresults[2].ok
    /\ iatts[1].kind = "url"
    /\ iout.exit = 0

\* has attachment i been embedded, or has an attachment record been attempted for it
IsEmbedded(i) == \E j \in 1..Len(iparts) : iparts[j].att = i
IsAttached(i) == \E j \in 1..Len(ireqs) : ireqs[j].op = "attachment" /\ ireqs[j].att = i

\* C15: a local non-image attachment is neither embedded nor turned into an
\* attachment record, and the run prints a message about it; no attachment
\* argument is dropped without a message
C15_NonImageGetsInstructions ==
    ipc = "done" =>
        \A i \in 1..Len(iatts) :
            /\ (iatts[i].kind = "local" /\ iatts[i].ext \notin {".png", ".jpg", ".jpeg", ".gif", ".webp", ".svg"}) =>
                    (~IsEmbedded(i) /\ ~IsAttached(i) /\ i \in iout.told)
            /\ (~IsEmbedded(i) /\ ~IsAttached(i)) => i \in iout.told

----------------------------------------------------------------------------
(* browser-tools/browser-start.js *)

\* for (let i = 0; i < 30; i++)
\* mutant: the loop allows one more connection attempt
ConnectAttempts_OneMore == 30 + 1

ConnectAttempts == 30

BrowserArgs == {"", "--profile", "--bogus"}

BrowserInit ==
    /\ barg \in BrowserArgs
    /\ bpc = "start"
    /\ bi = 0
    /\ bfx = [spawned |-> 0, locksRemoved |-> FALSE, synced |-> FALSE, connects |-> 0, connected |-> FALSE]
    /\ bout = [exit |-> -1, err |-> 0, out |-> 0]
    /\ skill = "nano-banana"
    /\ costFile = AbsentFile
    /\ clock = 0
    /\ run = IdleRun
    /\ gens = <<>>
    /\ RaceIdle
    /\ IssueIdle
    /\ ScriptIdle

\* the argument check: usage goes to console.log, then process.exit(1)
CheckArgument ==
    /\ bpc = "start"
    /\ IF barg # "" /\ barg # "--profile"
       THEN /\ bout' = [bout EXCEPT !.out = @ + 3, !.exit = 1]
            /\ bpc' = "done"
       ELSE /\ bout' = bout
            /\ bpc' = "check"
    /\ UNCHANGED <<barg, bi, bfx, notBrowser>>

\* mutant: a browser that answers does not end the run
CheckRunning_Relaunch ==
    /\ bpc = "check"
    /\ bfx' = [bfx EXCEPT !.connects = @ + 1, !.connected = TRUE]
    /\ bout' = [bout EXCEPT !.out = @ + 1]
    /\ bpc' = "launch"
    /\ UNCHANGED <<barg, bi, notBrowser>>

\* "Check if already running on :9222": one puppeteer.connect
CheckRunning ==
    /\ bpc = "check"
    /\ \/ /\ bfx' = [bfx EXCEPT !.connects = @ + 1, !.connected = TRUE]
          /\ bout' = [bout EXCEPT !.out = @ + 1, !.exit = 0]
          /\ bpc' = "done"
       \/ /\ bfx' = [bfx EXCEPT !.connects = @ + 1]
          /\ bout' = bout
          /\ bpc' = "launch"
    /\ UNCHANGED <<barg, bi, notBrowser>>

\* mkdir, rm of the Singleton files, rsync with --profile, getChromePath, spawn;
\* an exception of mkdir, rsync or getChromePath is uncaught: the runtime prints
\* it on stderr and the process ends with code 1
Launch ==
    /\ bpc = "launch"
    /\ \E failure \in {"none", "mkdir", "rsync", "chrome_not_found"} :
         CASE failure = "none" ->
                /\ bfx' = [bfx EXCEPT !.locksRemoved = TRUE, !.synced = (barg = "--profile"), !.spawned = @ + 1]
                /\ bout' = [bout EXCEPT !.out = @ + (IF barg = "--profile" THEN 1 ELSE 0)]
                /\ bpc' = "wait"
           [] failure = "mkdir" ->
                /\ bfx' = bfx
                /\ bout' = [bout EXCEPT !.err = @ + 1, !.exit = 1]
                /\ bpc' = "done"
           [] failure = "rsync" ->
                /\ barg = "--profile"
                /\ bfx' = [bfx EXCEPT !.locksRemoved = TRUE]
                /\ bout' = [bout EXCEPT !.out = @ + 1, !.err = @ + 1, !.exit = 1]
                /\ bpc' = "done"
           [] failure = "chrome_not_found" ->
                /\ bfx' = [bfx EXCEPT !.locksRemoved = TRUE, !.synced = (barg = "--profile")]
                /\ bout' = [bout EXCEPT !.out = @ + (IF barg = "--profile" THEN 1 ELSE 0),
                                        !.err = @ + 1, !.exit = 1]
                /\ bpc' = "done"
    /\ UNCHANGED <<barg, bi, notBrowser>>

\* mutant: a failed connection attempt spawns Chrome again
WaitForChrome_Respawn ==
    /\ bpc = "wait"
    /\ bi < ConnectAttempts
    /\ bfx' = [bfx EXCEPT !.connects = @ + 1, !.spawned = @ + 1]
    /\ bi' = bi + 1
    /\ IF bi + 1 < ConnectAttempts
       THEN bout' = bout /\ bpc' = "wait"
       ELSE bout' = [bout EXCEPT !.err = @ + 1, !.exit = 1] /\ bpc' = "done"
    /\ UNCHANGED <<barg, notBrowser>>

\* one iteration of "Wait for Chrome to be ready", and what follows the loop
\* when it was the last one
WaitForChrome ==
    /\ bpc = "wait"
    /\ bi < ConnectAttempts
    /\ \/ /\ bfx' = [bfx EXCEPT !.connects = @ + 1, !.connected = TRUE]
          /\ bout' = [bout EXCEPT !.out = @ + 1, !.exit = 0]
          /\ bpc' = "done"
          /\ bi' = bi
       \/ /\ bfx' = [bfx EXCEPT !.connects = @ + 1]
          /\ bi' = bi + 1
          /\ IF bi + 1 < ConnectAttempts
             THEN bout' = bout /\ bpc' = "wait"
             ELSE bout' = [bout EXCEPT !.err = @ + 1, !.exit = 1] /\ bpc' = "done"
    /\ UNCHANGED <<barg, notBrowser>>

BrowserNext == CheckArgument \/ CheckRunning \/ Launch \/ WaitForChrome

SpecBrowser == BrowserInit /\ [][BrowserNext]_vars

----------------------------------------------------------------------------
(* Exit codes *)

\* browser-start succeeded: a browser answers on :9222
BrowserSucceeded == bfx.connected

\* C10: a run ends with exit code 0 only if its operation succeeded, and on any
\* failure ends with exit code 1 after at least one message on stderr
C10_ExitConvention ==
    bpc = "done" =>
        /\ bout.exit = 0 => BrowserSucceeded
        /\ ~BrowserSucceeded => (bout.exit = 1 /\ bout.err >= 1)

----------------------------------------------------------------------------
(* One HTTP answer: how each script treats the status and the body it receives *)

\* the image skills' ledger, the overlapping runs, the linear attachments and
\* browser-start are not running
LedgerIdle ==
    /\ skill = "nano-banana"
    /\ costFile = AbsentFile
    /\ clock = 0
    /\ run = IdleRun
    /\ gens = <<>>

Pending == [pc |-> "pending"]

HttpScripts == {"nano-banana", "openai-generate", "openai-edit", "openai-download",
                "jina-search", "jina-content", "linear-issue"}

HttpStatuses == {200, 400, 401, 404, 429, 500}

\* "data": JSON carrying what the script asked for; "errors": JSON carrying an
\* error object or a GraphQL errors array; "json": other JSON; "text": not JSON
HttpBodies == {"data", "errors", "json", "text"}

\* response.ok, res.statusCode >= 200 && res.statusCode < 300
Is2xx(status) == status >= 200 /\ status < 300

\* the run has ended: exit code, number of console.error calls, whether the
\* status code and the body or message of the answer were printed, files written,
\* requests sent
Ended(exit, err, showsStatus, showsBody, files, requests) ==
    [pc |-> "done", exit |-> exit, err |-> err, showsStatus |-> showsStatus,
     showsBody |-> showsBody, files |-> files, requests |-> requests]

\* nano-banana: if (!response.ok) { console.error(HTTP status); console.error(message or text); exit(1) }
GeminiAnswer(status, body) ==
    IF ~Is2xx(status) THEN Ended(1, 2, TRUE, TRUE, 0, 1)
    ELSE IF body = "data" THEN Ended(0, 1, FALSE, FALSE, 1, 1)
    ELSE Ended(1, 1, FALSE, FALSE, 0, 1)

\* generateImage / editImage: throw new Error(`API request failed (HTTP ${status}): ${errorText}`),
\* caught at the end of the script
OpenAIAnswer(status, body) ==
    IF ~Is2xx(status) THEN Ended(1, 1, TRUE, TRUE, 0, 1)
    ELSE IF body = "data" THEN Ended(0, 1, FALSE, FALSE, 1, 1)
    ELSE Ended(1, 1, FALSE, FALSE, 0, 1)

\* the image-writing loop on an item with a url: fetch, arrayBuffer, writeFileSync,
\* with no look at the status; then the cost line on stderr and the end of the script
OpenAIDownloadAnswer(status, body) == Ended(0, 1, FALSE, FALSE, 1, 2)

\* search.js and content.js: reject(new Error(`HTTP ${statusCode}: ${data}`)), caught in main
JinaAnswer(status, body) ==
    IF ~Is2xx(status) THEN Ended(1, 1, TRUE, TRUE, 0, 1)
    ELSE Ended(0, 0, FALSE, FALSE, 0, 1)

\* makeRequest under issue.js: one https.request; the status code is never read and
\* a rejected promise goes to the catch of main
LinearAnswer(status, body) ==
    CASE body = "text"   -> Ended(1, 1, FALSE, FALSE, 0, 1)
      [] body = "errors" -> Ended(1, 1, FALSE, TRUE, 0, 1)
      [] body = "json"   -> Ended(1, 1, FALSE, FALSE, 0, 1)
      [] OTHER           -> Ended(0, 0, FALSE, FALSE, 0, 1)

HttpInit ==
    /\ cli \in [script : HttpScripts, status : HttpStatuses, body : HttpBodies]
    /\ ran = Pending
    /\ LedgerIdle
    /\ RaceIdle
    /\ IssueIdle
    /\ BrowserIdle

\* nano-banana/generate.js after its validations: the generateContent request
GeminiRun ==
    /\ ran = Pending
    /\ cli.script \in {"nano-banana"}
    /\ ran' = GeminiAnswer(cli.status, cli.body)
    /\ UNCHANGED <<cli, notScript>>

\* openai-image/generate.js after its validations: the images request
OpenAIRun ==
    /\ ran = Pending
    /\ cli.script \in {"openai-generate", "openai-edit"}
    /\ ran' = OpenAIAnswer(cli.status, cli.body)
    /\ UNCHANGED <<cli, notScript>>

\* openai-image/generate.js when the images request returned an item with a url
OpenAIDownloadRun ==
    /\ ran = Pending
    /\ cli.script \in {"openai-download"}
    /\ ran' = OpenAIDownloadAnswer(cli.status, cli.body)
    /\ UNCHANGED <<cli, notScript>>

\* search.js and content.js after their argument checks
JinaRun ==
    /\ ran = Pending
    /\ cli.script \in {"jina-search", "jina-content"}
    /\ ran' = JinaAnswer(cli.status, cli.body)
    /\ UNCHANGED <<cli, notScript>>

\* issue.js with an identifier: the issue query
LinearRun ==
    /\ ran = Pending
    /\ cli.script \in {"linear-issue"}
    /\ ran' = LinearAnswer(cli.status, cli.body)
    /\ UNCHANGED <<cli, notScript>>

HttpNext == GeminiRun \/ OpenAIRun \/ OpenAIDownloadRun \/ JinaRun \/ LinearRun

SpecHttp == HttpInit /\ [][HttpNext]_vars

\* C11: a run whose request was answered with a non-2xx status prints the status
\* code with the body or message and exits 1
C11_Non2xxReported ==
    (ran.pc = "done" /\ ~(cli.status >= 200 /\ cli.status <= 299)) =>
        (ran.exit = 1 /\ ran.showsStatus /\ ran.showsBody)

\* the answers by which Linear tells a client that it is rate limited
RateLimited == cli.script = "linear-issue" /\ cli.status = 429

\* C12: a rate-limited GraphQL request is sent again instead of failing the
\* command on the first such answer
C12_RateLimitRetried ==
    (ran.pc = "done" /\ RateLimited) => ran.requests >= 2

----------------------------------------------------------------------------
(* linear/issue.js *)

\* command-line words are sequences of characters
UpperCase == {"A", "B", "C", "D", "E", "F", "G", "H", "I", "J", "K", "L", "M",
              "N", "O", "P", "Q", "R", "S", "T", "U", "V", "W", "X", "Y", "Z"}
Digits == {"0", "1", "2", "3", "4", "5", "6", "7", "8", "9"}

\* /^[A-Z]+-\d+$/.test(issueId)
IsIdentifier(w) ==
    \E k \in 1..Len(w) :
        /\ k + 2 <= Len(w)
        /\ \A j \in 1..k : w[j] \in UpperCase
        /\ w[k + 1] = "-"
        /\ \A j \in (k + 2)..Len(w) : w[j] \in Digits

\* args._positional?.[0]: <<>> stands for no positional argument
IssueIds ==
    {<<>>,
     <<"E", "N", "G", "-", "1", "2", "3">>,
     <<"A", "-", "1">>,
     <<"e", "n", "g", "-", "1", "2", "3">>,
     <<"E", "n", "g", "-", "1">>,
     <<"E", "N", "G", "1", "2", "3">>,
     <<"E", "N", "G", "-">>,
     <<"-", "1", "2">>,
     <<"E", "N", "G", "-", "1", "2", "a">>,
     <<"4", "e", "5", "f", "-", "9", "a", "0", "b">>}

\* what Linear answers to the issue query, as makeRequest hands it on
IssueAnswers == {"found", "null", "no_data", "errors", "text", "network_error"}

\* what the runtime does with a rejected promise nobody handles: "throw" prints
\* the error and ends the process with code 1, "warn" prints a warning and the
\* process ends with code 0
RejectionModes == {"throw", "warn"}

IssueEnded(exit, err, queries, printed, notFound, uncaught) ==
    [pc |-> "done", exit |-> exit, err |-> err, queries |-> queries,
     printed |-> printed, notFound |-> notFound, uncaught |-> uncaught]

\* main of issue.js
IssueMain(issueId, answer, mode) ==
    IF issueId = <<>> THEN IssueEnded(1, 2, <<>>, FALSE, FALSE, FALSE)
    ELSE IF IsIdentifier(issueId)
    THEN LET sent == <<[name |-> "identifier", value |-> issueId]>> IN
         CASE answer = "found" -> IssueEnded(0, 0, sent, TRUE, FALSE, FALSE)
           [] answer = "null"  -> IssueEnded(1, 1, sent, FALSE, TRUE, FALSE)
           [] OTHER            -> IssueEnded(1, 1, sent, FALSE, FALSE, FALSE)
    \* query.replace(...) with query still undefined: a TypeError outside the try
    ELSE IssueEnded(IF mode = "throw" THEN 1 ELSE 0, 1, <<>>, FALSE, FALSE, TRUE)

IssueQueryInit ==
    /\ cli \in [script : {"issue"}, issueId : IssueIds, json : BOOLEAN,
                answer : IssueAnswers, rejections : RejectionModes]
    /\ ran = Pending
    /\ LedgerIdle
    /\ RaceIdle
    /\ IssueIdle
    /\ BrowserIdle

IssueQueryRun ==
    /\ ran = Pending
    /\ ran' = IssueMain(cli.issueId, cli.answer, cli.rejections)
    /\ UNCHANGED <<cli, notScript>>

SpecIssueQuery == IssueQueryInit /\ [][IssueQueryRun]_vars

\* C13: for an identifier and for any other value of the positional argument,
\* one issue query carrying the value is sent, and when Linear answers it the
\* run prints the issue or reports "not found" and exits 1
C13_BothFormsQueried ==
    (ran.pc = "done" /\ cli.issueId # <<>>) =>
        /\ Len(ran.queries) = 1
        /\ ran.queries[1].value = cli.issueId
        /\ ~ran.uncaught
        /\ cli.answer = "found" => (ran.printed /\ ran.exit = 0)
        /\ cli.answer = "null" => (ran.notFound /\ ran.exit = 1)

----------------------------------------------------------------------------
(* linear-api.js parseArgs *)

\* a command-line word: d leading dashes (2 stands for two or more) and the rest s
Word(d, s) == [k |-> "string", d |-> d, s |-> s]

\* the JavaScript values a parsed flag can hold
JsTrue == [k |-> "boolean", d |-> 0, s |-> "true"]
Inherited(key) == [k |-> "function", d |-> 0, s |-> key]

\* a flag's value: one value, or an array of values
Single(x) == [t |-> "single", v |-> <<x>>]
Array(xs) == [t |-> "array", v |-> xs]
JsUndefined == [t |-> "undefined", v |-> <<>>]

\* property names every object inherits from Object.prototype
ObjectPrototype == {"constructor", "toString", "valueOf", "hasOwnProperty"}

NoFlags == [key \in {} |-> JsUndefined]

\* result[key]
Get(named, key) ==
    IF key \in DOMAIN named THEN named[key]
    ELSE IF key \in ObjectPrototype THEN Single(Inherited(key))
    ELSE JsUndefined

\* result[key] = value
Put(named, key, value) ==
    [x \in DOMAIN named \cup {key} |-> IF x = key THEN value ELSE named[x]]

\* arg.startsWith('--')
StartsWithDashes(w) == w.d = 2

\* !nextArg for a string
IsEmptyWord(w) == w.d = 0 /\ w.s = ""

\* a flag that already has a value: convert to an array if not already, and push
Repeated(cur, nextArg) == Array(Append(cur.v, nextArg))

RECURSIVE parseArgs(_, _, _)
parseArgs(args, i, result) ==
    IF i > Len(args) THEN result
    ELSE LET arg == args[i] IN
         IF StartsWithDashes(arg)
         THEN LET key == arg.s IN
              IF i + 1 > Len(args) \/ IsEmptyWord(args[i + 1]) \/ StartsWithDashes(args[i + 1])
              THEN parseArgs(args, i + 1, [result EXCEPT !.named = Put(@, key, Single(JsTrue))])
              ELSE LET cur == Get(result.named, key)
                       new == IF cur # JsUndefined THEN Repeated(cur, args[i + 1])
                              ELSE Single(args[i + 1])
                   IN parseArgs(args, i + 2, [result EXCEPT !.named = Put(@, key, new)])
         ELSE parseArgs(args, i + 1, [result EXCEPT !.positional = Append(@, arg)])

ParsedArgs(args) == parseArgs(args, 1, [named |-> NoFlags, positional |-> <<>>])

\* if (args.x): every value parseArgs stores is truthy
Given(parsed, key) == Get(parsed.named, key) # JsUndefined

\* the value is one string, so that .toLowerCase() and .startsWith() exist
IsString(value) == value.t = "single" /\ value.v[1].k = "string"

\* let attachments = Array.isArray(args.attachment) ? args.attachment : [args.attachment]
AttachmentsOf(parsed) ==
    IF Given(parsed, "attachment") THEN Get(parsed.named, "attachment").v ELSE <<>>

----------------------------------------------------------------------------
(* update-issue.js: main and updateIssue as one run *)

\* the words of the model's command lines
IssueKey == Word(0, "ENG-1")
Flag(name) == Word(2, name)
LocalPng == Word(0, "a.png")
OtherPng == Word(0, "b.png")
LocalTxt == Word(0, "log.txt")
HttpPng == Word(0, "https://h/x.png")
EmptyWord == Word(0, "")

\* attachment.startsWith('http://') || attachment.startsWith('https://')
StartsWithHttp(w) == w.s \in {"https://h/x.png"}

\* path.extname(attachment).toLowerCase() is one of the embeddable extensions
HasImageExt(w) == w.s \in {"a.png", "b.png"}

\* String.prototype.toLowerCase on the words the model uses
ToLowerCase(str) ==
    CASE str = "High" -> "high"
      [] str = "None" -> "none"
      [] OTHER -> str

\* the keys of the priorities table
priorities == {"urgent", "high", "medium", "low", "none"}

\* text is a sequence of parts; an embedded image is the part ![name](data URI)
ImagePart(w) == [k |-> "image", d |-> 0, s |-> w.s]
Comma == Word(0, ",")

RECURSIVE Join(_)
Join(items) ==
    IF Len(items) <= 1 THEN items ELSE <<items[1], Comma>> \o Join(Tail(items))

\* value + markdown: the string a JavaScript value turns into when concatenated
ToText(value) == IF value.t = "array" THEN Join(value.v) ELSE value.v

\* currentIssue.description || ''
ExistingText(existing) == IF existing = "old" THEN <<Word(0, "old")>> ELSE <<>>

\* processLocalImagesForDescription: markdownParts of the attachments, in order
RECURSIVE MarkdownOf(_, _)
MarkdownOf(atts, env) ==
    IF atts = <<>> THEN <<>>
    ELSE LET a == atts[1]
             rest == MarkdownOf(Tail(atts), env)
         IN IF ~StartsWithHttp(a) /\ a.s \in env.files /\ HasImageExt(a) /\ env.embedOk
            THEN <<ImagePart(a)>> \o rest
            ELSE rest

\* urlAttachments: remaining.filter(startsWith http)
UrlsOf(atts) == SelectSeq(atts, StartsWithHttp)

NoInput == [fields |-> {}, description |-> <<>>, descriptionType |-> "undefined"]

Request(op, input) == [op |-> op, input |-> input]

\* the run has ended: the parsed arguments, exit code, number of console.error
\* calls, requests sent, image markdown embedded, whether the issue was printed,
\* and the attachments handed to processLocalImagesForDescription
LinearEnded(parsed, exit, err, requests, embedded, printed, processed) ==
    [pc |-> "done", args |-> parsed, exit |-> exit, err |-> err, requests |-> requests,
     embedded |-> embedded, printed |-> printed, processed |-> processed]

\* updates.description once images are embedded
DescriptionWithImages(parsed, existing, markdown) ==
    (IF Given(parsed, "description") THEN ToText(Get(parsed.named, "description"))
     ELSE ExistingText(existing)) \o markdown

\* the updates object handed to the issueUpdate mutation
UpdateInput(parsed, env, markdown) ==
    LET description == Get(parsed.named, "description")
        fields == {f \in {"title", "description"} : Given(parsed, f)}
                  \cup (IF Given(parsed, "status") THEN {"stateId"} ELSE {})
                  \cup (IF Given(parsed, "assignee") THEN {"assigneeId"} ELSE {})
                  \cup (IF Given(parsed, "priority") THEN {"priority"} ELSE {})
    IN IF markdown # <<>>
       THEN [fields |-> fields \cup {"description"},
             description |-> DescriptionWithImages(parsed, env.existing, markdown),
             descriptionType |-> "string"]
       ELSE IF Given(parsed, "description")
       THEN [fields |-> fields, description |-> description.v,
             descriptionType |-> IF description.t = "array" THEN "array" ELSE description.v[1].k]
       ELSE [fields |-> fields, description |-> <<>>, descriptionType |-> "undefined"]

\* updateIssue and what main does after it
ApplyUpdates(parsed, env, sent) ==
    LET atts == AttachmentsOf(parsed) IN
    IF \E j \in 1..Len(atts) : atts[j].k # "string"
    THEN LinearEnded(parsed, 1, 1, sent, <<>>, FALSE, <<>>)
    ELSE LET markdown == MarkdownOf(atts, env)
             mutation == Request("update", UpdateInput(parsed, env, markdown))
             urls == UrlsOf(atts)
         IN IF env.mutation # "success"
            THEN LinearEnded(parsed, 1, 1, Append(sent, mutation), markdown, FALSE, atts)
            ELSE LinearEnded(parsed, 0, IF env.attachOk THEN 0 ELSE Len(urls),
                             Append(sent, mutation) \o [j \in 1..Len(urls) |-> Request("attachment", NoInput)],
                             markdown, TRUE, atts)

\* main of update-issue.js
UpdateMain(args, env) ==
    LET parsed == ParsedArgs(args)
        q1 == <<Request("issue", NoInput)>>
        status == Get(parsed.named, "status")
        assignee == Get(parsed.named, "assignee")
        priority == Get(parsed.named, "priority")
        q2 == IF Given(parsed, "status") THEN Append(q1, Request("states", NoInput)) ELSE q1
        removeAssignee == IsString(assignee) /\ ToLowerCase(assignee.v[1].s) = "none"
        q3 == IF Given(parsed, "assignee") /\ ~removeAssignee
              THEN Append(q2, Request("users", NoInput)) ELSE q2
    IN
    IF parsed.positional = <<>> THEN LinearEnded(parsed, 1, 11, <<>>, <<>>, FALSE, <<>>)
    ELSE IF env.issue # "found" THEN LinearEnded(parsed, 1, 1, q1, <<>>, FALSE, <<>>)
    ELSE IF Given(parsed, "status") /\ ~(IsString(status) /\ env.lookupOk)
         THEN LinearEnded(parsed, 1, 2, q2, <<>>, FALSE, <<>>)
    ELSE IF Given(parsed, "assignee") /\ ~IsString(assignee)
         THEN LinearEnded(parsed, 1, 1, q2, <<>>, FALSE, <<>>)
    ELSE IF Given(parsed, "assignee") /\ ~removeAssignee /\ ~env.lookupOk
         THEN LinearEnded(parsed, 1, 1, q3, <<>>, FALSE, <<>>)
    ELSE IF Given(parsed, "priority") /\ ~IsString(priority)
         THEN LinearEnded(parsed, 1, 1, q3, <<>>, FALSE, <<>>)
    ELSE IF Given(parsed, "priority") /\ ToLowerCase(priority.v[1].s) \notin priorities
         THEN LinearEnded(parsed, 1, 2, q3, <<>>, FALSE, <<>>)
    ELSE IF ~\E f \in {"status", "assignee", "priority", "title", "description", "attachment"} :
                Given(parsed, f)
         THEN LinearEnded(parsed, 1, 1, q3, <<>>, FALSE, <<>>)
    ELSE ApplyUpdates(parsed, env, q3)

UpdateArgLists ==
    {<<>>,
     <<IssueKey>>,
     <<IssueKey, Flag("title"), Word(0, "T")>>,
     <<IssueKey, Flag("description"), Word(0, "new")>>,
     <<IssueKey, Flag("attachment"), LocalPng>>,
     <<IssueKey, Flag("description"), Word(0, "new"), Flag("attachment"), LocalPng>>,
     <<IssueKey, Flag("attachment"), LocalPng, Flag("attachment"), HttpPng>>,
     <<IssueKey, Flag("attachment"), LocalPng, Flag("attachment"), OtherPng>>,
     <<IssueKey, Flag("attachment"), LocalTxt>>,
     <<IssueKey, Flag("description"), EmptyWord, Flag("attachment"), LocalPng>>,
     <<IssueKey, Flag("description"), Flag("attachment"), LocalPng>>,
     <<IssueKey, Flag("description"), Word(0, "a"), Flag("description"), Word(0, "b"),
       Flag("attachment"), LocalPng>>,
     <<IssueKey, Flag("priority"), Word(0, "High")>>,
     <<IssueKey, Flag("priority"), Word(0, "bogus")>>,
     <<IssueKey, Flag("priority")>>,
     <<IssueKey, Flag("status"), Word(0, "Done")>>,
     <<IssueKey, Flag("assignee"), Word(0, "None")>>,
     <<IssueKey, Flag("assignee"), Word(0, "a@b.c"), Flag("title"), Word(0, "T")>>,
     <<IssueKey, Flag("attachment")>>,
     <<IssueKey, Flag("title"), Word(0, "T"), Flag("attachment"), HttpPng>>}

UpdateEnvs ==
    [issue : {"found", "null", "error"}, existing : {"null", "empty", "old"},
     files : {{"a.png", "b.png", "log.txt"}, {"log.txt"}}, embedOk : BOOLEAN,
     lookupOk : BOOLEAN, mutation : {"success", "no_success", "error"}, attachOk : BOOLEAN]

UpdateInit ==
    /\ cli \in [script : {"update-issue"}, args : UpdateArgLists, env : UpdateEnvs]
    /\ ran = Pending
    /\ LedgerIdle
    /\ RaceIdle
    /\ IssueIdle
    /\ BrowserIdle

UpdateRun ==
    /\ ran = Pending
    /\ cli.script = "update-issue"
    /\ ran' = UpdateMain(cli.args, cli.env)
    /\ UNCHANGED <<cli, notScript>>

SpecUpdate == UpdateInit /\ [][UpdateRun]_vars

\* the input of the issueUpdate mutation the run sent
Updates(requests) == SelectSeq(requests, LAMBDA r : r.op = "update")

\* the word given after --description, <<>> when there is none
DescriptionArg(args) ==
    LET at == {i \in 1..Len(args) : args[i] = Word(2, "description")} IN
    IF at = {} THEN <<>>
    ELSE LET i == CHOOSE i \in at : \A j \in at : i <= j IN
         IF i + 1 <= Len(args) /\ args[i + 1].d < 2 THEN <<args[i + 1]>> ELSE <<>>

\* the text of a word: nothing for the empty word
WordText(w) == IF w.s = "" THEN <<>> ELSE <<w>>

\* C14: with an embedded image the description sent is the --description value if
\* given, otherwise the existing description, followed by the image markdown; with
\* no embedded image and no --description the update has no description field
C14_DescriptionPreserved ==
    (ran.pc = "done" /\ cli.script = "update-issue") =>
        \A j \in 1..Len(Updates(ran.requests)) :
            LET input == Updates(ran.requests)[j].input
                given == DescriptionArg(cli.args)
                base == IF given # <<>> THEN WordText(given[1])
                        ELSE IF cli.env.existing = "old" THEN <<Word(0, "old")>> ELSE <<>>
            IN /\ ran.embedded # <<>> =>
                    ("description" \in input.fields /\ input.description = base \o ran.embedded)
               /\ (ran.embedded = <<>> /\ Word(2, "description") \notin {cli.args[i] : i \in 1..Len(cli.args)}) =>
                    "description" \notin input.fields

----------------------------------------------------------------------------
(* create-issue.js: main, interactiveMode and createIssue as one run *)

\* createIssue, and what main does after it
CreateIssue(parsed, env, sent, assignee, atts) ==
    LET q1 == IF assignee # JsUndefined THEN Append(sent, Request("users", NoInput)) ELSE sent IN
    IF assignee # JsUndefined /\ ~(IsString(assignee) /\ env.lookupOk)
    THEN LinearEnded(parsed, 1, 1, q1, <<>>, FALSE, <<>>)
    ELSE IF \E j \in 1..Len(atts) : atts[j].k # "string"
    THEN LinearEnded(parsed, 1, 1, q1, <<>>, FALSE, <<>>)
    ELSE LET markdown == MarkdownOf(atts, env)
             urls == UrlsOf(atts)
             q2 == Append(q1, Request("states", NoInput))
             q3 == Append(q2, Request("create", NoInput))
         IN IF env.mutation # "success"
            THEN LinearEnded(parsed, 1, 1, q3, markdown, FALSE, atts)
            ELSE LinearEnded(parsed, 0, IF env.attachOk THEN 0 ELSE Len(urls),
                             q3 \o [j \in 1..Len(urls) |-> Request("attachment", NoInput)],
                             markdown, TRUE, atts)

\* main of create-issue.js
CreateMain(args, env) ==
    LET parsed == ParsedArgs(args)
        teams == <<Request("teams", NoInput)>>
        team == Get(parsed.named, "team")
        priority == Get(parsed.named, "priority")
    IN
    IF Given(parsed, "title") /\ Given(parsed, "team")
    THEN \* Non-interactive mode
         IF ~IsString(team) THEN LinearEnded(parsed, 1, 1, teams, <<>>, FALSE, <<>>)
         ELSE IF ~env.lookupOk THEN LinearEnded(parsed, 1, 3, teams, <<>>, FALSE, <<>>)
         ELSE IF Given(parsed, "priority") /\ ~IsString(priority)
         THEN LinearEnded(parsed, 1, 1, teams, <<>>, FALSE, <<>>)
         ELSE CreateIssue(parsed, env, teams, Get(parsed.named, "assignee"), AttachmentsOf(parsed))
    ELSE \* Interactive mode: issueData comes from the prompts and has no attachments
         IF ~env.promptOk THEN LinearEnded(parsed, 1, 1, teams, <<>>, FALSE, <<>>)
         ELSE CreateIssue(parsed, env, teams, JsUndefined, <<>>)

----------------------------------------------------------------------------
(* Repeated flags: parseArgs under create-issue.js and update-issue.js *)

\* the words that follow the fixed start of the command line
FlagWords == {Flag("attachment"), Flag("constructor"), LocalPng, HttpPng, EmptyWord}

\* the start of the command line: nothing, the flags of the quick creation, or the issue
CommandStarts ==
    {[script |-> "create-issue", start |-> <<>>],
     [script |-> "create-issue", start |-> <<Flag("title"), Word(0, "T"), Flag("team"), Word(0, "ENG")>>],
     [script |-> "update-issue", start |-> <<IssueKey>>]}

WorkingEnv ==
    [issue |-> "found", existing |-> "old", files |-> {"a.png", "b.png", "log.txt"},
     embedOk |-> TRUE, lookupOk |-> TRUE, mutation |-> "success", attachOk |-> TRUE,
     promptOk |-> TRUE]

AttachEnvs ==
    {WorkingEnv, [WorkingEnv EXCEPT !.promptOk = FALSE], [WorkingEnv EXCEPT !.mutation = "error"],
     [WorkingEnv EXCEPT !.attachOk = FALSE]}

AttachInit ==
    /\ cli \in {[script |-> c.script, args |-> c.start \o body, env |-> e] :
                  c \in CommandStarts, body \in SeqsUpTo(FlagWords, MaxWords), e \in AttachEnvs}
    /\ ran = Pending
    /\ LedgerIdle
    /\ RaceIdle
    /\ IssueIdle
    /\ BrowserIdle

CreateRun ==
    /\ ran = Pending
    /\ cli.script = "create-issue"
    /\ ran' = CreateMain(cli.args, cli.env)
    /\ UNCHANGED <<cli, notScript>>

AttachNext2 == CreateRun \/ UpdateRun

SpecAttach == AttachInit /\ [][AttachNext2]_vars

\* the positions of --name on the command line, in order
Occurrences(args, name) ==
    SelectSeq([i \in 1..Len(args) |-> i], LAMBDA i : args[i] = [k |-> "string", d |-> 2, s |-> name])

\* every --name is followed by a non-empty word that does not start with "--"
EachHasValue(args, name) ==
    \A i \in 1..Len(args) :
        args[i] = [k |-> "string", d |-> 2, s |-> name] =>
            (i + 1 <= Len(args) /\ args[i + 1].d < 2 /\ args[i + 1] # [k |-> "string", d |-> 0, s |-> ""])

\* the words that follow the occurrences of --name, in command-line order
ValuesGiven(args, name) ==
    [j \in 1..Len(Occurrences(args, name)) |-> args[Occurrences(args, name)[j] + 1]]

\* C16: a flag given k times, each time with a value, parses to its k values in
\* command-line order (one value for k = 1, an array for k >= 2), and a run of
\* create-issue or update-issue that succeeds has processed every --attachment value
C16_RepeatedFlagsKept ==
    ran.pc = "done" =>
        \A name \in {"attachment", "constructor"} :
            (Occurrences(cli.args, name) # <<>> /\ EachHasValue(cli.args, name)) =>
                LET values == ValuesGiven(cli.args, name) IN
                /\ name \in DOMAIN ran.args.named
                /\ ran.args.named[name] =
                       IF Len(values) = 1 THEN [t |-> "single", v |-> values]
                       ELSE [t |-> "array", v |-> values]
                /\ (name = "attachment" /\ ran.exit = 0) => ran.processed = values

----------------------------------------------------------------------------
(* adb/adb.sh: one run of the wrapper script under bash with set -e *)

\* a shell word made of one literal string; words are sequences of pieces so
\* that "$tag:$level" keeps its pieces
W(s) == <<s>>

\* the exit field of a shell that has not exited yet
StillRunning == -1

\* the script's process when main starts: nothing invoked, nothing printed
ShellStart == [calls |-> <<>>, err |-> <<>>, out |-> <<>>, exit |-> StillRunning]

\* executable files on PATH; adb_cmd and the other helpers are functions of
\* the script's own shell and exist in no other process
Executables == {"adb", "timeout"}

\* the outcome of one command: status, adb invocations made, stdout, stderr
Outcome(status, calls, out, err) ==
    [status |-> status, calls |-> calls, out |-> out, err |-> err]

DevicesCall == [serial |-> "none", argv |-> <<W("devices")>>]

\* adb -s <serial> <argv> as the adb client answers it: it fails when no
\* connected device has that serial; pidof prints nothing and fails when the
\* app has no process
adb(env, serial, argv) ==
    IF \A i \in 1..Len(env.devices) : env.devices[i] # serial
    THEN Outcome(1, <<[serial |-> serial, argv |-> argv]>>, <<>>, <<"adb: device not found">>)
    ELSE IF Len(argv) >= 2 /\ argv[2] = W("pidof") /\ ~env.running
    THEN Outcome(1, <<[serial |-> serial, argv |-> argv]>>, <<>>, <<>>)
    ELSE Outcome(0, <<[serial |-> serial, argv |-> argv]>>, <<[by |-> "adb", text |-> argv]>>, <<>>)

\* get_device in its command substitution: error's exit 1 ends the subshell
\* before the serial is echoed
get_device(env) ==
    IF Len(env.devices) = 0
    THEN Outcome(1, <<DevicesCall>>, <<>>, <<"Error: No Android devices connected">>)
    ELSE IF Len(env.devices) > 1
    THEN Outcome(1, <<DevicesCall, DevicesCall>>, <<>>,
                 <<"Multiple devices connected:", "adb devices", "Error: Please disconnect extra devices">>)
    ELSE Outcome(0, <<DevicesCall>>, <<[by |-> "echo", text |-> <<W(env.devices[1])>>]>>, <<>>)

get_serial(env) ==
    IF env.serial # ""
    THEN Outcome(0, <<>>, <<[by |-> "echo", text |-> <<W(env.serial)>>]>>, <<>>)
    ELSE get_device(env)

\* the text a command substitution captures from an outcome's stdout
Captured(r) == IF r.out = <<>> THEN "" ELSE r.out[1].text[1][1]

\* adb_cmd: serial=$(get_serial); adb -s "$serial" "$@". Where errexit is in
\* force a failed get_serial ends the shell at the assignment; where bash
\* ignores errexit (a || list, a command substitution) the function goes on
\* with an empty serial
adb_cmd(env, argv, errexit) ==
    LET s == get_serial(env) IN
    IF s.status # 0 /\ errexit
    THEN Outcome(s.status, s.calls, <<>>, s.err)
    ELSE LET r == adb(env, Captured(s), argv) IN
         Outcome(r.status, s.calls \o r.calls, r.out, s.err \o r.err)

\* timeout N command args: timeout is a program of its own and can only start
\* an executable file; for any other name it fails with status 127
timeout(env, seconds, command, argv) ==
    IF command \notin Executables
    THEN Outcome(127, <<>>, <<>>, <<"timeout: failed to run command">>)
    ELSE Outcome(124, <<[serial |-> "none", argv |-> <<W(command)>> \o argv]>>,
                 <<[by |-> command, text |-> argv]>>, <<>>)

\* a simple command of the script: its output is shown and, under set -e, a
\* non-zero status ends the script with that status
Plain(sh, r) ==
    IF sh.exit # StillRunning THEN sh
    ELSE [calls |-> sh.calls \o r.calls, err |-> sh.err \o r.err, out |-> sh.out \o r.out,
          exit |-> IF r.status # 0 THEN r.status ELSE StillRunning]

\* command | filter | filter: the status of the pipeline is the status of its
\* last command, so a failure of the first one does not end the script
Piped(sh, r) ==
    IF sh.exit # StillRunning THEN sh
    ELSE [calls |-> sh.calls \o r.calls, err |-> sh.err \o r.err, out |-> sh.out \o r.out,
          exit |-> StillRunning]

\* command 2>/dev/null || true: stderr is discarded and the status ignored
QuietOrTrue(sh, r) ==
    IF sh.exit # StillRunning THEN sh
    ELSE [sh EXCEPT !.calls = @ \o r.calls, !.out = @ \o r.out]

\* $(command 2>/dev/null || true), $(command 2>/dev/null | head -1) and a
\* substitution inside the words of echo: only the invocations are left behind
Substituted(sh, r) ==
    IF sh.exit # StillRunning THEN sh
    ELSE [sh EXCEPT !.calls = @ \o r.calls]

echo(sh, text) ==
    IF sh.exit # StillRunning THEN sh
    ELSE [sh EXCEPT !.out = @ \o <<[by |-> "echo", text |-> <<text>>]>>]

\* success: a green line on stdout
success(sh, text) == echo(sh, W(text))

\* warn: a yellow line on stderr
warn(sh, text) ==
    IF sh.exit # StillRunning THEN sh
    ELSE [sh EXCEPT !.err = @ \o <<text>>]

\* error: a red line on stderr, then exit 1
error(sh, text) ==
    IF sh.exit # StillRunning THEN sh
    ELSE [sh EXCEPT !.err = @ \o <<text>>, !.exit = 1]

\* a builtin that fails under set -e (shift 2 with one argument left): the
\* script ends with status 1 and prints nothing
Errexit(sh) ==
    IF sh.exit # StillRunning THEN sh
    ELSE [sh EXCEPT !.exit = 1]

\* package=$(get_package ""): the detected package, or error and exit 1
get_package(sh, env) ==
    IF env.package # "" THEN sh
    ELSE error(sh, "Error: Could not detect package name")

cmd_devices(args, env) ==
    Plain(ShellStart, Outcome(0, <<[serial |-> "none", argv |-> <<W("devices"), W("-l")>>]>>,
                              <<[by |-> "adb", text |-> <<W("devices"), W("-l")>>]>>, <<>>))

\* the properties cmd_info prints with echo "...: $(adb -s "$serial" shell ...)"
InfoQueries ==
    << <<W("shell"), W("getprop"), W("ro.product.model")>>,
       <<W("shell"), W("getprop"), W("ro.product.manufacturer")>>,
       <<W("shell"), W("getprop"), W("ro.build.version.release")>>,
       <<W("shell"), W("getprop"), W("ro.build.version.sdk")>>,
       <<W("shell"), W("getprop"), W("ro.build.display.id")>>,
       <<W("shell"), W("wm"), W("size")>>,
       <<W("shell"), W("wm"), W("density")>> >>

RECURSIVE InfoLines(_, _, _, _)
InfoLines(sh, env, serial, i) ==
    IF i > Len(InfoQueries) THEN sh
    ELSE LET r == adb(env, serial, InfoQueries[i]) IN
         InfoLines(echo(Substituted(sh, r), <<"info", Captured(r)>>), env, serial, i + 1)

cmd_info(args, env) ==
    LET s == get_serial(env)
        sh == Plain(ShellStart, Outcome(s.status, s.calls, <<>>, s.err))
    IN  InfoLines(sh, env, Captured(s), 1)

RECURSIVE packages_filter(_, _, _)
packages_filter(args, i, filter) ==
    IF i > Len(args) THEN filter
    ELSE packages_filter(args, i + 1,
             IF args[i] = "--all" THEN <<>>
             ELSE IF args[i] = "--system" THEN <<W("-s")>>
             ELSE filter)

cmd_packages(args, env) ==
    Piped(ShellStart,
          adb_cmd(env, <<W("shell"), W("pm"), W("list"), W("packages")>>
                           \o packages_filter(args, 1, <<W("-3")>>), TRUE))

cmd_ls(args, env) ==
    LET path == IF Len(args) >= 1 /\ args[1] # "" THEN args[1] ELSE "/sdcard/" IN
    Plain(ShellStart, adb_cmd(env, <<W("shell"), <<"ls -la ", path>>>>, TRUE))

NoLogcatOptions ==
    [seconds |-> "", clear |-> FALSE, tag |-> "", level |-> "", package |-> FALSE, shifted |-> TRUE]

\* the while/case loop of cmd_logcat; shift 2 fails when the flag is the last
\* word
RECURSIVE logcat_options(_, _, _)
logcat_options(args, i, o) ==
    IF i > Len(args) THEN o
    ELSE IF args[i] \in {"--seconds", "--tag", "--level"} THEN
        LET value == IF i + 1 <= Len(args) THEN args[i + 1] ELSE ""
            set == IF args[i] = "--seconds" THEN [o EXCEPT !.seconds = value]
                   ELSE IF args[i] = "--tag" THEN [o EXCEPT !.tag = value]
                   ELSE [o EXCEPT !.level = value]
        IN  IF i + 1 > Len(args) THEN [set EXCEPT !.shifted = FALSE]
            ELSE logcat_options(args, i + 2, set)
    ELSE IF args[i] = "--clear" THEN logcat_options(args, i + 1, [o EXCEPT !.clear = TRUE])
    ELSE IF args[i] = "--package" THEN logcat_options(args, i + 1, [o EXCEPT !.package = TRUE])
    ELSE logcat_options(args, i + 1, o)

\* filter_spec, split into words by its unquoted expansion
filter_spec(o) ==
    IF o.tag # "" THEN << <<o.tag, ":", IF o.level # "" THEN o.level ELSE "V">>, W("*:S") >>
    ELSE IF o.level # "" THEN << <<"*:", o.level>> >>
    ELSE <<>>

\* pid=$(adb_cmd shell pidof "$package" 2>/dev/null || true)
pidof(env) == adb_cmd(env, <<W("shell"), W("pidof"), W(env.package)>>, FALSE)

\* pid_filter, split into words by its unquoted expansion
pid_filter(o, env) ==
    IF o.package /\ Captured(pidof(env)) # "" THEN << <<"--pid=", Captured(pidof(env))>> >>
    ELSE <<>>

cmd_logcat(args, env) ==
    LET o == logcat_options(args, 1, NoLogcatOptions)
        sh1 == IF o.shifted THEN ShellStart ELSE Errexit(ShellStart)
    IN  IF o.shifted /\ o.clear
        THEN success(Plain(sh1, adb_cmd(env, <<W("logcat"), W("-c")>>, TRUE)), "Logcat buffer cleared")
        ELSE LET sh2 == IF o.package THEN get_package(sh1, env) ELSE sh1
                 sh3 == IF o.package THEN Substituted(sh2, pidof(env)) ELSE sh2
                 sh4 == IF o.package /\ Captured(pidof(env)) = ""
                        THEN warn(sh3, "Warning: App not running, showing all logs")
                        ELSE sh3
             IN  IF o.seconds # ""
                 THEN QuietOrTrue(echo(sh4, <<"Capturing logcat for ", o.seconds, " seconds...">>),
                                  timeout(env, o.seconds, "adb_cmd",
                                          <<W("logcat")>> \o pid_filter(o, env) \o filter_spec(o)))
                 ELSE Plain(sh4, adb_cmd(env, <<W("logcat"), W("-d")>>
                                                  \o pid_filter(o, env) \o filter_spec(o), TRUE))

cmd_screenshot(args, env) ==
    LET output == IF Len(args) >= 1 /\ args[1] # "" THEN W(args[1])
                  ELSE <<"screenshot_", "date", ".png">>
        remote_path == W("/sdcard/screenshot_tmp.png")
        sh1 == echo(ShellStart, W("Taking screenshot..."))
        sh2 == Plain(sh1, adb_cmd(env, <<W("shell"), W("screencap"), W("-p"), remote_path>>, TRUE))
        sh3 == Plain(sh2, adb_cmd(env, <<W("pull"), remote_path, output>>, TRUE))
        sh4 == Plain(sh3, adb_cmd(env, <<W("shell"), W("rm"), remote_path>>, TRUE))
    IN  echo(sh4, <<"Screenshot saved to ">> \o output)

DefaultSeconds == "10"

\* the while/case loop of cmd_screenrecord over the words after the first
RECURSIVE screenrecord_seconds(_, _, _)
screenrecord_seconds(args, i, seconds) ==
    IF i > Len(args) THEN [seconds |-> seconds, shifted |-> TRUE]
    ELSE IF args[i] = "--seconds" THEN
        IF i + 1 > Len(args) THEN [seconds |-> "", shifted |-> FALSE]
        ELSE screenrecord_seconds(args, i + 2, args[i + 1])
    ELSE screenrecord_seconds(args, i + 1, seconds)

cmd_screenrecord(args, env) ==
    LET output == IF Len(args) >= 1 /\ args[1] # "" THEN W(args[1])
                  ELSE <<"screenrecord_", "date", ".mp4">>
        parsed == screenrecord_seconds(args, 2, DefaultSeconds)
        remote_path == "/sdcard/screenrecord_tmp.mp4"
        sh1 == IF parsed.shifted
               THEN echo(ShellStart, <<"Recording screen for ", parsed.seconds, " seconds...">>)
               ELSE Errexit(ShellStart)
        sh2 == Plain(sh1, adb_cmd(env, <<W("shell"),
                             <<"screenrecord --time-limit ", parsed.seconds, " ", remote_path>>>>, TRUE))
        sh3 == Plain(sh2, adb_cmd(env, <<W("pull"), W(remote_path), output>>, TRUE))
        sh4 == Plain(sh3, adb_cmd(env, <<W("shell"), W("rm"), W(remote_path)>>, TRUE))
    IN  echo(sh4, <<"Recording saved to ">> \o output)

\* main: dispatch on the first word; a shell that ran to the end exits 0
AdbMain(command, args, env) ==
    LET sh == IF command = "devices" THEN cmd_devices(args, env)
              ELSE IF command = "info" THEN cmd_info(args, env)
              ELSE IF command = "packages" THEN cmd_packages(args, env)
              ELSE IF command = "ls" THEN cmd_ls(args, env)
              ELSE IF command = "logcat" THEN cmd_logcat(args, env)
              ELSE IF command = "screenshot" THEN cmd_screenshot(args, env)
              ELSE IF command = "screenrecord" THEN cmd_screenrecord(args, env)
              ELSE error(ShellStart, "Error: Unknown command")
    IN  [pc |-> "done", calls |-> sh.calls, out |-> sh.out, err |-> sh.err,
         exit |-> IF sh.exit = StillRunning THEN 0 ELSE sh.exit]

AdbCommands == {"devices", "info", "packages", "ls", "logcat", "screenshot", "screenrecord", "frob"}

LogcatWords == {"--seconds", "5", "--clear", "--package", "--tag", "MyTag", "--level", "E"}

ScreenrecordWords == {"out.mp4", "--seconds", "5"}

\* the words that may follow each command on the command line
AdbArgLists(command) ==
    IF command = "logcat" THEN SeqsUpTo(LogcatWords, MaxArgs)
    ELSE IF command = "screenrecord" THEN SeqsUpTo(ScreenrecordWords, MaxArgs)
    ELSE IF command = "packages" THEN {<<>>, <<"--all">>, <<"--system">>}
    ELSE IF command \in {"ls", "screenshot"} THEN {<<>>, <<"out.mp4">>}
    ELSE {<<>>}

\* ADB_SERIAL, the devices adb lists, the detected package and whether the
\* app has a process
AdbEnvs ==
    [serial : {"", "emu1"},
     devices : {<<>>, <<"emu1">>, <<"emu1", "emu2">>},
     package : {"", "com.example"},
     running : BOOLEAN]

AdbInit ==
    /\ cli \in UNION {{[script |-> "adb", command |-> c, args |-> a, env |-> e] :
                           a \in AdbArgLists(c), e \in AdbEnvs} : c \in AdbCommands}
    /\ ran = Pending
    /\ LedgerIdle
    /\ RaceIdle
    /\ IssueIdle
    /\ BrowserIdle

AdbRun ==
    /\ ran = Pending
    /\ cli.script = "adb"
    /\ ran' = AdbMain(cli.command, cli.args, cli.env)
    /\ UNCHANGED <<cli, notScript>>

SpecAdb == AdbInit /\ [][AdbRun]_vars

\* the serial the run has to use: ADB_SERIAL, or the one connected device
HasTarget(env) == env.serial # "" \/ Len(env.devices) = 1

Target(env) == IF env.serial # "" THEN env.serial ELSE env.devices[1]

\* the commands that talk to a device
TalksToDevice(command) == command \in {"info", "packages", "ls", "logcat", "screenshot", "screenrecord"}

\* C17: every adb invocation against a device carries -s with ADB_SERIAL or
\* the single connected device; with ADB_SERIAL unset and zero or several
\* devices connected, a command that talks to a device prints an error, exits
\* 1 and issues no adb invocation against a device
C17_DeviceSelected ==
    (ran.pc = "done" /\ cli.script = "adb" /\ TalksToDevice(cli.command)) =>
        IF HasTarget(cli.env)
        THEN \A i \in 1..Len(ran.calls) :
                 ran.calls[i].argv[1] # <<"devices">> => ran.calls[i].serial = Target(cli.env)
        ELSE /\ ran.exit = 1
             /\ ran.err # <<>>
             /\ \A i \in 1..Len(ran.calls) : ran.calls[i].argv[1] = <<"devices">>

\* the four documented forms of the screenrecord arguments
ScreenrecordForms == {<<>>, <<"out.mp4">>, <<"--seconds", "5">>, <<"out.mp4", "--seconds", "5">>}

\* C18: in each of the four combinations of [output] and [--seconds N] the
\* recording lasts N seconds when --seconds N is given and 10 otherwise, and
\* is saved to the output path when one is given and to the default name
\* otherwise
C18_ScreenrecordArgsIndependent ==
    (ran.pc = "done" /\ cli.script = "adb" /\ cli.command = "screenrecord"
        /\ cli.args \in ScreenrecordForms /\ HasTarget(cli.env)
        /\ \E i \in 1..Len(cli.env.devices) : cli.env.devices[i] = Target(cli.env)) =>
        LET given == \E i \in 1..Len(cli.args) : cli.args[i] = "--seconds"
            named == \E i \in 1..Len(cli.args) : cli.args[i] = "out.mp4"
            limit == IF given THEN "5" ELSE "10"
            saved == IF named THEN <<"out.mp4">> ELSE <<"screenrecord_", "date", ".mp4">>
        IN  /\ ran.exit = 0
            /\ \E i \in 1..Len(ran.calls) :
                   /\ ran.calls[i].argv[1] = <<"shell">>
                   /\ ran.calls[i].argv[2][1] = "screenrecord --time-limit "
                   /\ ran.calls[i].argv[2][2] = limit
            /\ \E i \in 1..Len(ran.calls) :
                   /\ ran.calls[i].argv[1] = <<"pull">>
                   /\ ran.calls[i].argv[3] = saved

\* command lines of a timed capture, alone or filtered by the project's package
TimedCapture(args) ==
    args \in {<<"--seconds", "5">>, <<"--seconds", "5", "--package">>, <<"--package", "--seconds", "5">>}

\* C19: logcat --seconds N runs adb logcat against the selected device, prints
\* the lines it captured and then terminates on its own
C19_TimedLogcatCaptures ==
    (ran.pc = "done" /\ cli.script = "adb" /\ cli.command = "logcat"
        /\ TimedCapture(cli.args) /\ HasTarget(cli.env) /\ cli.env.package # ""
        /\ \E i \in 1..Len(cli.env.devices) : cli.env.devices[i] = Target(cli.env)) =>
        /\ \E i \in 1..Len(ran.calls) :
               /\ ran.calls[i].argv[1] = <<"logcat">>
               /\ ran.calls[i].serial = Target(cli.env)
        /\ \E i \in 1..Len(ran.out) : ran.out[i].by = "adb"
        /\ ran.exit = 0

----------------------------------------------------------------------------
(* linear-api.js resizeImageToFitSize: the bound of the encode loop *)

\* one more pass through the loop body for the same attachment
AnotherAttempt == ipc = "resize" /\ ipc' = "resize"

\* C20: the resize routine makes at most 8 encode attempts: each pass through
\* the loop is one attempt more than the last and is entered with fewer than 8
\* made; it goes round again only after a buffer larger than the target, so it
\* returns at the first attempt whose buffer fits, and every buffer it returns
\* comes from attempt 1..8 and fits unless it is that of the 8th attempt
C20_ResizeBounded ==
    /\ [](ipc = "resize" => irs.attempt < 8)
    /\ []((ipc = "resize" /\ irs.attempt >= 1) => irs.buf > 92160)
    /\ [](\A j \in 1..Len(iparts) :
             iparts[j].from = "resized" =>
                 /\ iparts[j].attempts \in 1..8
                 /\ iparts[j].attempts < 8 => iparts[j].bytes <= 92160)
    /\ [][AnotherAttempt => (irs'.attempt = irs.attempt + 1 /\ ik' = ik /\ iparts' = iparts)]_vars
    /\ [][(ipc = "resize" /\ ipc' # "resize") =>
             (ik' = ik + 1 /\ Len(iparts') <= Len(iparts) + 1)]_vars

\* one image returned at the third attempt and one after all 8 attempts
C20_Witness ==
    /\ ipc = "done"
    /\ Len(iparts) = 2
    /\ iparts[1].from = "resized" /\ iparts[1].attempts = 3 /\ iparts[1].bytes <= 92160
    /\ iparts[2].from = "resized" /\ iparts[2].attempts = 8 /\ iparts[2].bytes > 92160

----------------------------------------------------------------------------
(* linear-api.js resizeImageToFitSize: the schedule of widths and qualities *)

\* the width and quality the claim gives for attempts 1..8
ClaimedSchedule ==
    << <<800, 80>>, <<640, 80>>, <<512, 80>>, <<409, 80>>,
       <<327, 80>>, <<294, 65>>, <<264, 50>>, <<237, 35>> >>

\* C21: the k-th encode attempt of the resize routine uses the k-th pair of
\* the schedule (800,80), (640,80), (512,80), (409,80), (327,80), (294,65),
\* (264,50), (237,35); the width strictly decreases from one attempt to the
\* next and the quality stays within 30..80
C21_ResizeSchedule ==
    /\ [](ipc = "resize" =>
             /\ irs.attempt \in 0..7
             /\ <<irs.width, irs.quality>> = ClaimedSchedule[irs.attempt + 1]
             /\ irs.quality \in 30..80)
    /\ [][(ipc = "resize" /\ ipc' = "resize") => irs'.width < irs.width]_vars

\* the eighth attempt is about to be made with width 237 and quality 35
C21_Witness ==
    ipc = "resize" /\ irs.attempt = 7 /\ irs.width = 237 /\ irs.quality = 35

----------------------------------------------------------------------------
(* linear-api.js resizeImageToFitSize: the buffer returned after 8 attempts *)

\* the routine returns an oversized buffer: the part appended by this step
ReturnsOversized ==
    /\ ipc = "resize"
    /\ Len(iparts') = Len(iparts) + 1
    /\ iparts'[Len(iparts')].bytes > 92160

\* C22: when all 8 attempts came out larger than the target, the buffer
\* returned is the smallest of the 8; in particular it is never larger than
\* the buffer of the 7th attempt, which the loop still holds when the 8th is
\* encoded
C22_SmallestReturned ==
    [][ReturnsOversized => iparts'[Len(iparts')].bytes <= irs.buf]_vars

----------------------------------------------------------------------------
(* linear-api.js fileToBase64DataUri: a file that is already small enough *)

\* attachment i is an existing local file with an embeddable extension and at
\* most 90 KB
SmallImage(i) ==
    /\ iatts[i].kind = "local"
    /\ iatts[i].ext \in {".png", ".jpg", ".jpeg", ".gif", ".webp", ".svg"}
    /\ iatts[i].size <= 92160

\* C23: an image file of at most 92,160 bytes (boundary included) is embedded
\* with exactly its own bytes, in the one step that reaches it, and no encode
\* attempt is ever made for it
C23_SmallFileUnchanged ==
    /\ []((ipc = "resize") => ~SmallImage(ik))
    /\ [](\A j \in 1..Len(iparts) :
             SmallImage(iparts[j].att) =>
                 /\ iparts[j].from = "original"
                 /\ iparts[j].bytes = iatts[iparts[j].att].size
                 /\ iparts[j].attempts = 0)
    /\ [][(ipc = "embed" /\ ik <= Len(iatts) /\ SmallImage(ik)) =>
             /\ ipc' = "embed"
             /\ Len(iparts') = Len(iparts) + 1
             /\ iparts'[Len(iparts')].att = ik
             /\ iparts'[Len(iparts')].bytes = iatts[ik].size]_vars

\* a file of exactly 92,160 bytes was embedded as it is while the resize
\* library was available
C23_Witness ==
    /\ isharp
    /\ \E j \in 1..Len(iparts) :
           /\ SmallImage(iparts[j].att)
           /\ iparts[j].bytes = 92160
           /\ iparts[j].attempts = 0

----------------------------------------------------------------------------
(* linear-api.js: the MIME type of a data URI against the bytes it carries *)

\* the format of the bytes of an embedded part: a file embedded as it is has
\* the format its extension names; a resized one has the format the pipeline
\* encoded to
BytesFormat(p) ==
    IF p.from = "original"
    THEN CASE iatts[p.att].ext = ".png" -> "image/png"
           [] iatts[p.att].ext \in {".jpg", ".jpeg"} -> "image/jpeg"
           [] iatts[p.att].ext = ".gif" -> "image/gif"
           [] iatts[p.att].ext = ".webp" -> "image/webp"
           [] OTHER -> "image/svg+xml"
    ELSE EncodedFormat(iatts[p.att].ext)

\* C24: on the small-file path and on the resized path, the MIME type
\* declared in the data URI is the type of the bytes embedded
C24_MimeMatchesBytes ==
    \A j \in 1..Len(iparts) : iparts[j].mime = BytesFormat(iparts[j])

----------------------------------------------------------------------------
(* linear-api.js: a large image when sharp cannot be imported *)

\* attachment i is an existing local image file of more than 90 KB
BigImage(i) ==
    /\ iatts[i].kind = "local"
    /\ iatts[i].ext \in {".png", ".jpg", ".jpeg", ".gif", ".webp", ".svg"}
    /\ iatts[i].size > 92160

\* the embedding loop reaches a large image and no image library is available
BigImageWithoutSharp ==
    ipc = "embed" /\ ik <= Len(iatts) /\ BigImage(ik) /\ ~isharp

\* C25: without an image-processing library a local image over 90 KB gets no
\* encode attempt; one message naming it is reported on stderr, it is not
\* embedded, and the run goes on with the next attachment without exiting
C25_NoLibraryNoAttempt ==
    /\ [](~isharp => (ipc # "resize" /\ irs.attempt = 0))
    /\ [](~isharp => \A j \in 1..Len(iparts) : ~BigImage(iparts[j].att))
    /\ [][BigImageWithoutSharp =>
             /\ ipc' = "embed"
             /\ ik' = ik + 1
             /\ iparts' = iparts
             /\ iout'.err = iout.err + 1
             /\ ik \in iout'.told
             /\ iout'.exit = iout.exit]_vars

\* a run without the library that met a large image first, embedded the small
\* image after it, sent the issue mutation and ended with exit code 0
C25_Witness ==
    /\ ~isharp
    /\ ipc = "done"
    /\ Len(iatts) = 2 /\ BigImage(1)
    /\ Len(iparts) = 1 /\ iparts[1].att = 2
    /\ iissue
    /\ iout.exit = 0 /\ iout.err = 1

----------------------------------------------------------------------------
(* create-issue.js / update-issue.js: attachments only after the issue *)

\* the positions in the request log of the requests of one kind
RequestsOf(op) == {p \in 1..Len(ireqs) : ireqs[p].op = op}

\* C30: an attachmentCreate mutation is sent only after the issue mutation has
\* been sent and has returned success; when the issue mutation failed or
\* reported success = false the run has exited 1 and sent no attachment
\* mutation
C30_AttachmentsAfterIssue ==
    /\ \A p \in RequestsOf("attachment") :
           /\ iissue
           /\ \E q \in RequestsOf("issue") : q < p
    /\ (RequestsOf("issue") # {} /\ ~iissue) =>
           /\ ipc = "failed"
           /\ iout.exit = 1
           /\ RequestsOf("attachment") = {}
    /\ Cardinality(RequestsOf("issue")) <= 1

\* two URL attachments were created, both after the successful issue mutation
C30_Witness ==
    /\ ipc = "done"
    /\ iissue
    /\ Cardinality(RequestsOf("attachment")) = 2
    /\ \A p \in RequestsOf("attachment") : \E q \in RequestsOf("issue") : q < p

----------------------------------------------------------------------------
(* browser-start.js: what is repeated, and what is not *)

C28_AlreadyRunningNoEffect ==
    /\ []((bpc = "done" /\ bfx.connected /\ bfx.connects = 1) =>
             /\ bout.exit = 0
             /\ bfx.spawned = 0
             /\ ~bfx.locksRemoved
             /\ ~bfx.synced)
    /\ [][(bpc = "check" /\ bfx'.connected) => bpc' = "done"]_vars

\* the probe of a run with --profile found a browser
C28_Witness ==
    /\ barg = "--profile"
    /\ bpc = "done"
    /\ bfx.connected /\ bfx.connects = 1
    /\ bout.exit = 0

\* C29: after the spawn the wait loop makes at most 30 connection attempts,
\* one more per iteration, and none after a success; the run ends with exit
\* code 0 exactly when an attempt connected and with exit code 1 after the
\* 30th failure; Chrome is spawned at most once
C29_WaitLoopBounded ==
    /\ [](bpc = "wait" => (bi < 30 /\ bfx.spawned = 1 /\ ~bfx.connected))
    /\ [](bfx.connected => bpc = "done")
    /\ []((bpc = "done" /\ bfx.spawned = 1) =>
             /\ bfx.connected <=> bout.exit = 0
             /\ ~bfx.connected <=> (bout.exit = 1 /\ bi = 30))
    /\ [](bfx.spawned <= 1)
    /\ [][(bpc = "wait" /\ bpc' = "wait") => bi' = bi + 1]_vars

\* the third attempt after the spawn connected
C29_Witness ==
    bpc = "done" /\ bfx.spawned = 1 /\ bi = 2 /\ bfx.connected /\ bout.exit = 0

----------------------------------------------------------------------------
(* generate.js of both image skills: the ledger and a failed generation *)

\* the step is a generation run that ended with exit code 1
GenerationFailed == run'.cmd = "generate" /\ run'.exit = 1 /\ clock' = clock + 1

\* the step is a generation run that changed the ledger file
GenerationWroteLedger == run'.cmd = "generate" /\ clock' = clock + 1 /\ costFile' # costFile

====
